---- MODULE Spec2Model ----
(***************************************************************************)
(* Model of iced_video_player's playback engine (src/src/video.rs) and of  *)
(* the widget code that polls it (src/src/video_player.rs): construction   *)
(* of a Video, its worker ("pump") thread, the frame hand-off through      *)
(* `frame` / `upload_frame`, the transport state (is_eos, restart_stream,  *)
(* looping, backend state), the redraw-tick poll, thumbnails and Drop.     *)
(*                                                                         *)
(* One Video instance is modelled.  The consumer (GUI thread) runs one     *)
(* operation at a time (cpc says where it is); the worker thread (pumpPc)  *)
(* interleaves with it at every step.                                      *)
(***************************************************************************)
EXTENDS Integers, Sequences, FiniteSets, TLC

(* ---------------- bounds of the model ---------------- *)
\* samples the backend hands to the worker thread are numbered 1..MaxSamples
MaxSamples == 2
\* messages that can wait on the backend bus at once
MaxBus == 2
\* positions are 0..MaxPos; the stream ends at MaxPos
MaxPos == 2
\* playback rates are the non-zero integers of -MaxSpeed..MaxSpeed
MaxSpeed == 1
\* volumes are 0..MaxVol
MaxVol == 1
\* subtitle URLs are numbered 1..MaxUrl (0: none set)
MaxUrl == 1
\* numerator and denominator of the negotiated framerate range over -MaxFr..MaxFr
MaxFr == 1
\* decode-to-present latencies fed to the sync smoother are 0..MaxLatency (ns)
MaxLatency == 1
\* threads that read properties of the Video besides the consumer
MaxReaders == 2
\* filter setters are called with the whole numbers -MaxFilterIn .. MaxFilterIn and NaN
MaxFilterIn == 10
\* the sync smoother is followed for MaxUpdates updates, with latencies of 0,
\* MaxLatency and MaxLatency * SlowFrame nanoseconds
MaxUpdates == 130
SlowFrame == 1000

(* ---------------- constants of the program ---------------- *)
\* the av-offset property is written on every 128th update (video.rs:238)
AvOffsetPeriod == 128

VARIABLES
    engine,          \* "none" | "live" | "failed" | "dropped" | "drop_panicked"
    ctorErr,         \* error returned by from_gst_pipeline: "none" | "StateChange" | "Caps" | "Framerate"
    source,          \* backend pipeline state: "Null" | "Ready" | "Paused" | "Playing"
    framerate,       \* Internal.framerate as <<numer, denom>> of the gst::Fraction it was divided from
    worker,          \* Internal.worker: "none" | "some" (Some(JoinHandle)) | "taken" | "detached"
    alive,           \* Internal.alive (AtomicBool)
    looping,         \* Internal.looping
    is_eos,          \* Internal.is_eos
    restart_stream,  \* Internal.restart_stream
    muted,           \* backend property "mute"
    position,        \* backend playback position
    bus,             \* Error / Eos messages waiting on Internal.bus
    frame,           \* Internal.frame: the sample in the slot (0 = Frame::empty())
    frameLock,       \* owner of the frame mutex: "free" | "pump" | "consumer"
    framePoisoned,   \* the frame mutex is poisoned
    upload_frame,    \* Internal.upload_frame (AtomicBool)
    last_frame_time, \* Internal.last_frame_time: the sample whose arrival was stamped last
    pumpPc,          \* worker thread: "none" | "check" | "pull" | "stamp" | "lock" | "store" | "flag" | "done"
    pumpSample,      \* the sample the worker pulled in this iteration (0 = none)
    nextSample,      \* next sample the backend will yield
    speed,           \* Internal.speed
    ctl,             \* the backend properties "volume" and "suburi"
    seg,             \* the seek the backend accepted last: rate, start, stop, flags
    readers,         \* threads holding a read guard of the RwLock around Internal
    nested,          \* per thread, its second read() under its own guard: "none" | "first" | "blocked"
    video_filters,   \* Internal.video_filters: the attached filter elements and their properties
    sync,            \* Internal.sync_av, sync_av_avg, sync_av_counter and the backend's av-offset
    cpc,             \* consumer: "idle" | "write_wait" | "prepare" | "prepare_locked" | "thumb_seek" | ... | "drop_join"
    prim,            \* VideoPrimitive.upload_frame of the primitive draw() queued
    thumb,           \* locals of a running thumbnails() call (out: images produced so far)
    lastOp,          \* history: the consumer operation run last, its pre-state and its effects
    hist             \* history: counters and hand-off bookkeeping

vars == << engine, ctorErr, source, framerate, worker, alive, looping, is_eos,
           restart_stream, muted, position, bus, frame, frameLock, framePoisoned,
           upload_frame, last_frame_time, pumpPc, pumpSample, nextSample, speed, ctl,
           readers, nested, video_filters, seg, sync, cpc, prim, thumb, lastOp, hist >>

\* what no transport operation writes
ctorVars  == << ctorErr, readers, nested, framerate, sync, ctl, video_filters >>
xportVars == << looping, is_eos, restart_stream, speed, muted, position, seg >>
slotVars  == << frame, frameLock, framePoisoned, upload_frame, last_frame_time >>
pumpVars  == << pumpPc, pumpSample, nextSample >>

States    == {"Null", "Ready", "Paused", "Playing"}
Positions == 0 .. MaxPos
Duration  == MaxPos
Speeds    == ((0 - MaxSpeed) .. MaxSpeed) \ {0}
Volumes   == 0 .. MaxVol
FrRange   == (0 - MaxFr) .. MaxFr
NoThumb   == [paused |-> FALSE, muted |-> FALSE, pos |-> 0, rest |-> << >>,
              out |-> 0, err |-> "none"]

NoCtl     == [volume |-> MaxVol, suburi |-> 0]
\* a pipeline nobody has sought in plays the whole stream forwards
NoSeek    == [rate |-> 1, start |-> 0, stop |-> Duration, flush |-> FALSE,
              accurate |-> FALSE]
\* VideoFilters::none() (video.rs:76-81): an Option<gst::Element> is << >> for
\* None and << element >> for Some(element)
VideoFilters_none == [balance |-> << >>, gamma |-> << >>]
NoSync    == [sync_av |-> FALSE, avg |-> 0, counter |-> 0, av_offset |-> 0]

(* ---------------- history helpers ---------------- *)
\* the history of stores keeps the two most recent entries
Recent(q) == IF Len(q) > 2 THEN SubSeq(q, Len(q) - 1, Len(q)) ELSE q

Pre == [is_eos |-> is_eos, restart_stream |-> restart_stream, source |-> source,
        looping |-> looping, position |-> position, speed |-> speed]

\* the record kept of a consumer operation: its name, argument, the state it
\* started from, the backend calls and field writes it made in order, the bus
\* messages it drained, the notifications it published and its result
Op(name, arg, calls, drained, published, result) ==
    [op |-> name, arg |-> arg, pre |-> Pre, calls |-> calls, drained |-> drained,
     published |-> published, result |-> result]

Has(seq, x) == \E i \in 1 .. Len(seq) : seq[i] = x

\* spawned / joined: worker threads spawned and joined so far;
\* pending: the samples the worker stored since the consumer's last read;
\* pendingAtRead, read: `pending` at the consumer's last read and the sample it got;
\* lastIter: how the worker's last finished iteration ended;
\* clearedInOp: the running consumer operation has cleared upload_frame;
\* overwrote: the worker's last store replaced a sample nobody had read;
\* stale: the sample the worker had pulled and not yet published when
\* thumbnails issued its last seek, while it is the last one stored or still to
\* be stored (0: none);
\* staleEos: every Eos message waiting on the bus was posted before a seek
\* that the backend has accepted since
NoHist == [spawned |-> 0, joined |-> 0, pending |-> << >>, pendingAtRead |-> << >>,
           read |-> 0, lastIter |-> "none", clearedInOp |-> FALSE, overwrote |-> FALSE,
           stale |-> 0, staleEos |-> FALSE]

(* ---------------- construction: Video::from_gst_pipeline ---------------- *)
\* value of `numer as f64 / denom as f64` classified as the code tests it
is_nan(fr)      == fr[1] = 0 /\ fr[2] = 0
is_infinite(fr) == fr[1] # 0 /\ fr[2] = 0
lt_zero(fr)     == fr[2] # 0 /\ fr[1] * fr[2] < 0
\* |numer/denom| < f64::EPSILON (2^-52): with i32 operands only when numer = 0
abs_lt_epsilon(fr) == fr[2] # 0 /\ fr[1] = 0

FramerateCheckNoEpsilon(fr) == is_nan(fr) \/ is_infinite(fr) \/ lt_zero(fr)

\* the test of video.rs:410-413
FramerateDegenerate(fr) ==
    is_nan(fr) \/ is_infinite(fr) \/ lt_zero(fr) \/ abs_lt_epsilon(fr)

\* a construction that returns its error without stopping the pipeline
CleanupSkipped(failed, src) == src

\* the cleanup! macro (video.rs:383-390) and the explicit stop of video.rs:415:
\* on an error the pipeline is set to Null (the result of that set_state is
\* discarded) and the error is passed on
Cleanup(failed, src) == IF failed THEN "Null" ELSE src

CtorSteps == << "set_state", "state", "caps", "structure", "width", "height", "framerate" >>
CtorError(step) == IF step \in {"set_state", "state"} THEN "StateChange" ELSE "Caps"

\* from_gst_pipeline: failAt is the first step whose result is an Err/None
\* ("none": all succeed), reached the state a failed start leaves the backend
\* in, fr the negotiated framerate, avOffset whether the pipeline has the
\* av-offset property
FromGstPipeline(failAt, reached, fr, avOffset) ==
    /\ engine = "none"
    /\ LET started == IF failAt = "set_state" THEN reached ELSE "Playing"
           degenerate == failAt = "none" /\ FramerateDegenerate(fr)
           failed  == failAt # "none" \/ degenerate
       IN /\ source' = Cleanup(failed, started)
          /\ engine' = IF failed THEN "failed" ELSE "live"
          /\ ctorErr' = IF failAt # "none" THEN CtorError(failAt)
                        ELSE IF degenerate THEN "Framerate" ELSE "none"
          /\ framerate' = IF failAt = "none" THEN fr ELSE framerate
          /\ sync' = IF failed THEN sync ELSE [sync EXCEPT !.sync_av = avOffset]
          /\ speed' = IF failed THEN speed ELSE 1
          /\ video_filters' = IF failed THEN video_filters ELSE VideoFilters_none
          /\ worker' = IF failed THEN "none" ELSE "some"
          /\ pumpPc' = IF failed THEN "none" ELSE "check"
          /\ alive' = ~failed
          /\ hist' = [hist EXCEPT !.spawned = IF failed THEN @ ELSE @ + 1]
          /\ lastOp' = Op("from_gst_pipeline", failAt, << << "started", started >> >>,
                          << >>, << >>, IF failed THEN "Err" ELSE "Ok")
    /\ UNCHANGED << looping, is_eos, restart_stream, muted, position, seg, ctl, bus,
                    readers, nested, slotVars, pumpSample, nextSample, cpc, prim, thumb >>

(* ---------------- the worker thread (video.rs:441-472) ---------------- *)
\* a worker whose loop never tests alive
PumpCheckIgnoresAlive ==
    /\ pumpPc = "check"
    /\ pumpPc' = "pull"
    /\ UNCHANGED << engine, ctorVars, source, worker, alive, xportVars, bus, slotVars,
                    pumpSample, nextSample, cpc, prim, thumb, lastOp, hist >>

\* while alive_ref.load(Acquire) (video.rs:442)
PumpCheck ==
    /\ pumpPc = "check"
    /\ pumpPc' = IF alive THEN "pull" ELSE "done"
    /\ UNCHANGED << engine, ctorVars, source, worker, alive, xportVars, bus, slotVars,
                    pumpSample, nextSample, cpc, prim, thumb, lastOp, hist >>

\* try_pull_preroll / try_pull_sample with the 16 ms timeout: None ends the
\* iteration with Err(FlowError::Eos), which the loop does not even log
PumpPullTimeout ==
    /\ pumpPc = "pull"
    /\ pumpPc' = "check"
    /\ hist' = [hist EXCEPT !.lastIter = "timeout"]
    /\ UNCHANGED << engine, ctorVars, source, worker, alive, xportVars, bus, slotVars,
                    pumpSample, nextSample, cpc, prim, thumb, lastOp >>

\* try_pull_preroll while the pipeline is not Playing: the sink hands out its
\* preroll sample, which a pull does not consume: a new sample (fresh), or the
\* one pulled before
PumpPullPreroll(fresh) ==
    /\ pumpPc = "pull"
    /\ source = "Paused"
    /\ IF fresh
       THEN /\ nextSample <= MaxSamples
            /\ pumpSample' = nextSample
            /\ nextSample' = nextSample + 1
       ELSE /\ nextSample > 1
            /\ pumpSample' = nextSample - 1
            /\ UNCHANGED nextSample
    /\ pumpPc' = "stamp"
    /\ UNCHANGED << engine, ctorVars, source, worker, alive, xportVars, bus, slotVars,
                    cpc, prim, thumb, lastOp, hist >>

\* try_pull_sample while the pipeline is Playing
PumpPullSample ==
    /\ pumpPc = "pull"
    /\ source = "Playing"
    /\ nextSample <= MaxSamples
    /\ pumpSample' = nextSample
    /\ nextSample' = nextSample + 1
    /\ pumpPc' = "stamp"
    /\ UNCHANGED << engine, ctorVars, source, worker, alive, xportVars, bus, slotVars,
                    cpc, prim, thumb, lastOp, hist >>

\* *last_frame_time_ref.lock().map_err(|_| FlowError::Error)? = Instant::now()
\* lockOk is the LockResult of Mutex::lock
PumpStamp(lockOk) ==
    /\ pumpPc = "stamp"
    /\ IF lockOk
       THEN /\ last_frame_time' = pumpSample
            /\ pumpPc' = "lock"
            /\ UNCHANGED << pumpSample, hist >>
       ELSE /\ pumpPc' = "check"
            /\ pumpSample' = 0
            /\ hist' = [hist EXCEPT !.lastIter = "time_lock_failed"]
            /\ UNCHANGED last_frame_time
    /\ UNCHANGED << engine, ctorVars, source, worker, alive, xportVars, bus, frame,
                    frameLock, framePoisoned, upload_frame, nextSample, cpc, prim,
                    thumb, lastOp >>

\* a worker that gives up for good when the frame mutex is poisoned
PumpLockFailedExits ==
    /\ pumpPc = "lock"
    /\ framePoisoned
    /\ pumpPc' = "done"
    /\ pumpSample' = 0
    /\ hist' = [hist EXCEPT !.lastIter = "frame_lock_failed"]
    /\ UNCHANGED << engine, ctorVars, source, worker, alive, xportVars, bus, slotVars,
                    nextSample, cpc, prim, thumb, lastOp >>

\* frame_ref.lock().map_err(|_| FlowError::Error)?  -- a poisoned mutex
PumpLockFailed ==
    /\ pumpPc = "lock"
    /\ framePoisoned
    /\ pumpPc' = "check"
    /\ pumpSample' = 0
    /\ hist' = [hist EXCEPT !.lastIter = "frame_lock_failed"]
    /\ UNCHANGED << engine, ctorVars, source, worker, alive, xportVars, bus, slotVars,
                    nextSample, cpc, prim, thumb, lastOp >>

\* a worker that raises the flag as soon as it holds the mutex, before the store
PumpLockSetsFlag ==
    /\ pumpPc = "lock"
    /\ ~framePoisoned
    /\ frameLock = "free"
    /\ frameLock' = "pump"
    /\ upload_frame' = TRUE
    /\ pumpPc' = "store"
    /\ UNCHANGED << engine, ctorVars, source, worker, alive, xportVars, bus, frame,
                    framePoisoned, last_frame_time, pumpSample,
                    nextSample, cpc, prim, thumb, lastOp, hist >>

\* frame_ref.lock() succeeding: taken as soon as the mutex is free
PumpLock ==
    /\ pumpPc = "lock"
    /\ ~framePoisoned
    /\ frameLock = "free"
    /\ frameLock' = "pump"
    /\ pumpPc' = "store"
    /\ UNCHANGED << engine, ctorVars, source, worker, alive, xportVars, bus, frame,
                    framePoisoned, upload_frame, last_frame_time, pumpSample,
                    nextSample, cpc, prim, thumb, lastOp, hist >>

\* the slot after the worker's store, had it kept the frame not yet consumed
StoreKeepUnread(old, new, flag) == IF flag THEN old ELSE new

\* *frame_guard = Frame(sample): the slot after the store
Store(old, new, flag) == new

\* a worker whose guard lives to the end of the iteration
PumpStoreKeepsGuard ==
    /\ pumpPc = "store"
    /\ frameLock = "pump"
    /\ frame' = Store(frame, pumpSample, upload_frame)
    /\ pumpPc' = "flag"
    /\ hist' = [hist EXCEPT !.pending = Recent(Append(@, pumpSample)),
                            !.overwrote = (hist.pending # << >>),
                            !.stale = IF @ = pumpSample THEN @ ELSE 0]
    /\ UNCHANGED << engine, ctorVars, source, worker, alive, xportVars, bus, frameLock,
                    framePoisoned, upload_frame, last_frame_time, pumpSample,
                    nextSample, cpc, prim, thumb, lastOp >>

\* { *frame_guard = Frame(sample); }  -- the guard is dropped at the brace
PumpStore ==
    /\ pumpPc = "store"
    /\ frameLock = "pump"
    /\ frame' = Store(frame, pumpSample, upload_frame)
    /\ frameLock' = "free"
    /\ pumpPc' = "flag"
    /\ hist' = [hist EXCEPT !.pending = Recent(Append(@, pumpSample)),
                            !.overwrote = (hist.pending # << >>),
                            !.stale = IF @ = pumpSample THEN @ ELSE 0]
    /\ UNCHANGED << engine, ctorVars, source, worker, alive, xportVars, bus,
                    framePoisoned, upload_frame, last_frame_time, pumpSample,
                    nextSample, cpc, prim, thumb, lastOp >>

\* upload_frame_ref.swap(true, SeqCst); Ok(())
PumpFlag ==
    /\ pumpPc = "flag"
    /\ upload_frame' = TRUE
    /\ pumpPc' = "check"
    /\ pumpSample' = 0
    /\ hist' = [hist EXCEPT !.lastIter = "published"]
    /\ UNCHANGED << engine, ctorVars, source, worker, alive, xportVars, bus, frame,
                    frameLock, framePoisoned, last_frame_time, nextSample, cpc, prim,
                    thumb, lastOp >>

Pump ==
    \/ PumpCheck
    \/ PumpPullTimeout
    \/ \E fresh \in BOOLEAN : PumpPullPreroll(fresh)
    \/ PumpPullSample
    \/ \E lockOk \in BOOLEAN : PumpStamp(lockOk)
    \/ PumpLockFailed
    \/ PumpLock
    \/ PumpStore
    \/ PumpFlag

(* ---------------- transport: impl Internal (video.rs:142-230) ---------------- *)
\* the part of Internal and of the backend the transport methods work on,
\* with the trace of what the running operation did so far
Cur == [is_eos |-> is_eos, restart_stream |-> restart_stream, source |-> source,
        position |-> position, muted |-> muted, speed |-> speed, seg |-> seg,
        calls |-> << >>, result |-> "Ok"]

Did(t, what, arg) == [t EXCEPT !.calls = Append(@, << what, arg >>)]

\* a set_paused that forgets the restart flag
SetPausedNeverArms(t, paused) ==
    Did([t EXCEPT !.source = IF paused THEN "Paused" ELSE "Playing"],
        "set_state", IF paused THEN "Paused" ELSE "Playing")

\* Internal::set_paused (video.rs:213-226): the state change first, then the
\* restart flag
set_paused(t, paused) ==
    LET t1 == Did([t EXCEPT !.source = IF paused THEN "Paused" ELSE "Playing"],
                  "set_state", IF paused THEN "Paused" ELSE "Playing")
    IN IF t1.is_eos /\ ~paused
       THEN Did([t1 EXCEPT !.restart_stream = TRUE], "restart_stream", "true")
       ELSE t1

\* Internal::paused (video.rs:228-230)
paused(t) == t.source = "Paused"

\* what `?` makes of the glib::BoolError of a refused seek: Error::Seek
SeekError == "Seek"

\* gst_element_seek(rate, flags, Set start, Set/End stop) as the backend takes
\* it when it accepts it: the segment start..stop is played at the rate, from
\* start upwards when the rate is positive and from stop downwards when it is
\* negative; a flushing seek moves the playback position to that end at once
BackendSeek(t, rate, accurate, start, stop) ==
    [t EXCEPT !.seg = [rate |-> rate, start |-> start, stop |-> stop,
                       flush |-> TRUE, accurate |-> accurate],
              !.position = IF rate > 0 THEN start ELSE stop]

\* a seek that puts the stored speed back to 1.0
SeekResetsSpeed(t, pos, accurate, ok) ==
    IF ok
    THEN Did([BackendSeek(t, 1, accurate, pos, Duration) EXCEPT !.speed = 1],
             "seek", ToString(pos))
    ELSE [Did(t, "seek_rejected", ToString(pos)) EXCEPT !.result = SeekError]

\* a seek that takes the end-of-stream flag down
SeekClearsEos(t, pos, accurate, ok) ==
    IF ok
    THEN Did(BackendSeek([t EXCEPT !.is_eos = FALSE], t.speed, accurate, pos, Duration),
             "seek", ToString(pos))
    ELSE [Did(t, "seek_rejected", ToString(pos)) EXCEPT !.result = SeekError]

\* Internal::seek (video.rs:143-177): one flushing seek at the stored speed,
\* start = Set(position), stop = Set(NONE), i.e. the end of the stream, for
\* Position::Time and Position::Frame alike; ok is the backend's answer
seek(t, pos, accurate, ok) ==
    IF ok
    THEN Did(BackendSeek(t, t.speed, accurate, pos, Duration), "seek", ToString(pos))
    ELSE [Did(t, "seek_rejected", ToString(pos)) EXCEPT !.result = SeekError]

\* a re-anchoring that asks for position..end whatever the sign of the rate
ReanchorForwardOnly(t, rate) == BackendSeek(t, rate, TRUE, t.position, Duration)

\* the seek of set_speed (video.rs:183-201), flushing and accurate: the queried
\* position to the end of the stream for a rate > 0.0, 0 to the queried
\* position otherwise
Reanchor(t, rate) ==
    IF rate > 0
    THEN BackendSeek(t, rate, TRUE, t.position, Duration)
    ELSE BackendSeek(t, rate, TRUE, 0, t.position)

\* a set_speed that stores the rate although the backend refused the seek
SetSpeedStoresAnyway(t, rate, queryOk, ok) ==
    IF ~queryOk THEN [t EXCEPT !.result = "Caps"]
    ELSE IF ~ok
         THEN [Did(t, "seek_rejected", ToString(t.position))
                  EXCEPT !.result = SeekError, !.speed = rate]
         ELSE [Did(Reanchor(t, rate), "seek", ToString(t.position)) EXCEPT !.speed = rate]

\* Internal::set_speed (video.rs:179-204): queryOk is whether query_position
\* answers, ok the backend's answer to the seek
set_speed(t, rate, queryOk, ok) ==
    IF ~queryOk THEN [t EXCEPT !.result = "Caps"]
    ELSE IF ~ok
         THEN [Did(t, "seek_rejected", ToString(t.position)) EXCEPT !.result = SeekError]
         ELSE [Did(Reanchor(t, rate), "seek", ToString(t.position)) EXCEPT !.speed = rate]

\* Internal::restart_stream (video.rs:206-211)
restart_stream_(t, ok) ==
    seek(set_paused(Did([t EXCEPT !.is_eos = FALSE], "is_eos", "false"), FALSE),
         0, FALSE, ok)

\* the assignments every transport action makes from the record it computed
Apply(t) ==
    /\ is_eos' = t.is_eos
    /\ restart_stream' = t.restart_stream
    /\ source' = t.source
    /\ position' = t.position
    /\ seg' = t.seg
    /\ muted' = t.muted
    /\ speed' = t.speed

\* an operation that would not wait for the read guards other threads hold
IdleIgnoresReaders == engine = "live" /\ cpc = "idle"

\* the consumer can start an operation: the engine is live, no operation of
\* the consumer is running and no read guard is out. The methods taking
\* &mut self (get_mut, video.rs:527-529) cannot be called while a guard
\* borrows the Video, and Video::write (523-525), which draw and the poll
\* take, waits for the read guards to go
Idle == engine = "live" /\ cpc = "idle" /\ readers = {}

Threads == 1 .. MaxReaders

\* a property read on another thread (Video::paused, position, volume, ...):
\* Video::read (video.rs:519-521) takes a read guard, which RwLock grants
\* while no writer holds the lock; no consumer operation holds it between
\* the steps of the renderer
ReadBegin(t) ==
    /\ engine = "live" /\ cpc \in {"idle", "prepare", "prepare_locked"}
    /\ t \notin readers
    /\ readers' = readers \cup {t}
    /\ UNCHANGED << engine, ctorErr, nested, framerate, sync, ctl, video_filters, source, worker,
                    alive, xportVars, bus, slotVars, pumpVars, cpc, prim, thumb, lastOp,
                    hist >>

\* the getter returns and its guard is dropped
ReadEnd(t) ==
    /\ t \in readers /\ nested[t] = "none"
    /\ readers' = readers \ {t}
    /\ UNCHANGED << engine, ctorErr, nested, framerate, sync, ctl, video_filters, source, worker,
                    alive, xportVars, bus, slotVars, pumpVars, cpc, prim, thumb, lastOp,
                    hist >>

Reads == \E t \in Threads : ReadBegin(t) \/ ReadEnd(t)

\* Video::write (video.rs:523-525) called by draw or by the poll while read
\* guards are out: the consumer waits in RwLock::write
WriteWait ==
    /\ engine = "live" /\ cpc = "idle"
    /\ readers # {}
    /\ cpc' = "write_wait"
    /\ UNCHANGED << engine, ctorVars, source, worker, alive, xportVars, bus, slotVars,
                    pumpVars, prim, thumb, lastOp, hist >>

\* draw and the poll run once Video::write has the lock: at once, or after a
\* wait for the read guards
Writing == Idle \/ (engine = "live" /\ cpc = "write_wait" /\ readers = {})

\* Video::size (video.rs:532-534) and VideoPlayer::overlay (video_player.rs:529)
\* on thread t: the first self.read(); its guard is a temporary of the tuple
\* expression (a local in overlay) and lives to the end of the function
SizeFirst(t) ==
    /\ engine = "live" /\ cpc \in {"idle", "prepare", "prepare_locked"}
    /\ t \notin readers
    /\ readers' = readers \cup {t}
    /\ nested' = [nested EXCEPT ![t] = "first"]
    /\ UNCHANGED << engine, ctorErr, framerate, sync, ctl, video_filters, source, worker,
                    alive, xportVars, bus, slotVars, pumpVars, cpc, prim, thumb, lastOp,
                    hist >>

\* the second self.read() of size (line 533) and the self.video.speed() of
\* overlay (video_player.rs:551, video.rs:709-711) with the first guard still
\* held.  RwLock leaves open whether a read waits behind a writer that is
\* waiting (queued): if it does, the thread waits for the consumer, which
\* waits for this thread's first guard; otherwise the read is granted and
\* the function returns, dropping both guards
SizeSecond(t, queued) ==
    /\ t \in readers /\ nested[t] = "first"
    /\ IF cpc = "write_wait" /\ queued
       THEN /\ nested' = [nested EXCEPT ![t] = "blocked"]
            /\ UNCHANGED readers
       ELSE /\ nested' = [nested EXCEPT ![t] = "none"]
            /\ readers' = readers \ {t}
    /\ UNCHANGED << engine, ctorErr, framerate, sync, ctl, video_filters, source, worker,
                    alive, xportVars, bus, slotVars, pumpVars, cpc, prim, thumb, lastOp,
                    hist >>

Sizes == \E t \in Threads : SizeFirst(t) \/ (\E queued \in BOOLEAN : SizeSecond(t, queued))

\* Video::set_paused (video.rs:686-688)
SetPaused(p) ==
    /\ Idle
    /\ LET t == set_paused(Cur, p)
       IN Apply(t) /\ lastOp' = Op("set_paused", ToString(p), t.calls, << >>, << >>, "Ok")
    /\ UNCHANGED << engine, ctorVars, worker, alive, looping, bus, slotVars, pumpVars,
                    cpc, prim, thumb, hist >>

\* Video::set_looping (video.rs:681-683)
SetLooping(b) ==
    /\ Idle
    /\ looping' = b
    /\ lastOp' = Op("set_looping", ToString(b), << >>, << >>, << >>, "Ok")
    /\ UNCHANGED << engine, ctorVars, source, worker, alive, is_eos, restart_stream,
                    speed, muted, position, seg, bus, slotVars, pumpVars, cpc, prim,
                    thumb, hist >>

\* Video::set_muted (video.rs:661-663)
SetMuted(b) ==
    /\ Idle
    /\ muted' = b
    /\ lastOp' = Op("set_muted", ToString(b), << >>, << >>, << >>, "Ok")
    /\ UNCHANGED << engine, ctorVars, source, worker, alive, looping, is_eos,
                    restart_stream, speed, position, seg, bus, slotVars, pumpVars, cpc, prim,
                    thumb, hist >>

\* Video::seek (video.rs:698-700)
Seek(pos, accurate, ok) ==
    /\ Idle
    /\ LET t == seek(Cur, pos, accurate, ok)
       IN Apply(t) /\ lastOp' = Op("seek", ToString(pos), t.calls, << >>, << >>, t.result)
    /\ hist' = [hist EXCEPT !.staleEos = IF ok THEN Has(bus, "Eos") ELSE @]
    /\ UNCHANGED << engine, ctorVars, worker, alive, looping, bus, slotVars, pumpVars,
                    cpc, prim, thumb >>

\* Video::restart_stream (video.rs:729-731)
RestartStream(ok) ==
    /\ Idle
    /\ LET t == restart_stream_(Cur, ok)
       IN Apply(t) /\ lastOp' = Op("restart_stream", "", t.calls, << >>, << >>, t.result)
    /\ hist' = [hist EXCEPT !.staleEos = IF ok THEN Has(bus, "Eos") ELSE @]
    /\ UNCHANGED << engine, ctorVars, worker, alive, looping, bus, slotVars, pumpVars,
                    cpc, prim, thumb >>

\* Video::set_speed (video.rs:704-706)
SetSpeed(rate, queryOk, ok) ==
    /\ Idle
    /\ LET t == set_speed(Cur, rate, queryOk, ok)
       IN /\ Apply(t)
          /\ lastOp' = Op("set_speed", ToString(rate), t.calls, << >>, << >>, t.result)
    /\ UNCHANGED << engine, ctorVars, worker, alive, looping, bus,
                    slotVars, pumpVars, cpc, prim, thumb, hist >>

\* the mute property after set_property("volume", ..) followed by
\* set_muted(self.muted()): unmutes is whether the backend drops the mute when
\* its volume is changed; muted() is read after the volume has been set
set_volume(m, unmutes) ==
    LET afterVolume == IF unmutes THEN FALSE ELSE m
    IN afterVolume

\* Video::set_volume (video.rs:650-653)
SetVolume(v, unmutes) ==
    /\ Idle
    /\ ctl' = [ctl EXCEPT !.volume = v]
    /\ muted' = set_volume(muted, unmutes)
    /\ lastOp' = Op("set_volume", ToString(v),
                    << << "volume", ToString(v) >>,
                       << "mute", ToString(set_volume(muted, unmutes)) >> >>,
                    << >>, << >>, "Ok")
    /\ UNCHANGED << engine, ctorErr, readers, nested, framerate, sync, video_filters, source, worker, alive, looping,
                    is_eos, restart_stream, speed, position, seg, bus, slotVars,
                    pumpVars, cpc, prim, thumb, hist >>

\* the states a refused change down to Ready can leave the pipeline in
Stuck(src) == IF src = "Playing" THEN {"Playing", "Paused"} ELSE {src}

\* a set_subtitle_url that leaves the pipeline playing whatever it was
SetSubtitleUrlAlwaysPlays(t, url, readyOk, reached, at) ==
    IF readyOk
    THEN set_paused(Did(Did([t EXCEPT !.source = "Ready", !.position = at],
                            "set_state", "Ready"),
                        "suburi", ToString(url)),
                    FALSE)
    ELSE [Did([t EXCEPT !.source = reached], "set_state_refused", "Ready")
             EXCEPT !.result = "StateChange"]

\* Video::set_subtitle_url (video.rs:793-800): paused() is read, then
\* set_state(Ready)?, set_property("suburi"), set_paused(paused).  readyOk is
\* the backend's answer to set_state(Ready), reached where a refused change
\* left the pipeline, at the position the pipeline has once it has been
\* through Ready
set_subtitle_url(t, url, readyOk, reached, at) ==
    IF readyOk
    THEN set_paused(Did(Did([t EXCEPT !.source = "Ready", !.position = at],
                            "set_state", "Ready"),
                        "suburi", ToString(url)),
                    paused(t))
    ELSE [Did([t EXCEPT !.source = reached], "set_state_refused", "Ready")
             EXCEPT !.result = "StateChange"]

SetSubtitleUrl(url, readyOk, reached, at) ==
    /\ Idle
    /\ reached \in Stuck(source)
    /\ LET t == set_subtitle_url(Cur, url, readyOk, reached, at)
       IN /\ Apply(t)
          /\ ctl' = IF Has(t.calls, << "suburi", ToString(url) >>)
                    THEN [ctl EXCEPT !.suburi = url] ELSE ctl
          /\ lastOp' = Op("set_subtitle_url", ToString(url), t.calls, << >>, << >>,
                          t.result)
    /\ UNCHANGED << engine, ctorErr, readers, nested, framerate, sync, video_filters, worker, alive, looping,
                    bus, slotVars, pumpVars, cpc, prim, thumb, hist >>

\* the backend plays: the position moves one step through the segment of the
\* last seek, upwards at a positive rate and downwards at a negative one
Advance ==
    /\ engine = "live"
    /\ source = "Playing"
    /\ IF seg.rate > 0
       THEN position < seg.stop /\ position' = position + 1
       ELSE position > seg.start /\ position' = position - 1
    /\ UNCHANGED << engine, ctorVars, source, worker, alive, looping, is_eos,
                    restart_stream, speed, muted, seg, bus, slotVars, pumpVars, cpc,
                    prim, thumb, lastOp, hist >>

\* the backend posts an Error or an Eos message on its bus
BusPost(msg) ==
    /\ engine = "live"
    /\ Len(bus) < MaxBus
    /\ msg = "Eos" => source \in {"Paused", "Playing"}
    /\ bus' = Append(bus, msg)
    /\ hist' = [hist EXCEPT !.staleEos = IF msg = "Eos" THEN FALSE ELSE @]
    /\ UNCHANGED << engine, ctorVars, source, worker, alive, xportVars, slotVars,
                    pumpVars, cpc, prim, thumb, lastOp >>

(* ---------------- the video filters (video.rs:60-110, 505-517, 541-647) ---------------- *)
\* an f64 is modelled as a whole number or NaN; the infinities behave under
\* clamp as the numbers beyond every domain do
F64(n) == [nan |-> FALSE, v |-> n]
NaN == [nan |-> TRUE, v |-> 0]
F64s == { F64(n) : n \in (0 - MaxFilterIn) .. MaxFilterIn } \cup { NaN }
Show(x) == IF x.nan THEN "NaN" ELSE ToString(x.v)

\* f64 comparison: every comparison with NaN is false
f64_lt(a, b) == ~a.nan /\ ~b.nan /\ a.v < b.v

\* f64::clamp: x below min gives min, x above max gives max, anything else
\* (NaN included) is returned as it is
clamp(x, min, max) ==
    IF f64_lt(x, min) THEN min ELSE IF f64_lt(max, x) THEN max ELSE x

\* the elements Video::new builds (video.rs:313-329), with the properties at
\* the defaults of the videobalance and gamma elements
BalanceElement == [brightness |-> F64(0), contrast |-> F64(1), hue |-> F64(0),
                   saturation |-> F64(1)]
GammaElement == [gamma |-> F64(1)]

\* Video::gamma (video.rs:542-549)
gamma(vf) == IF vf.gamma = << >> THEN F64(1) ELSE vf.gamma[1].gamma

\* a set_gamma that creates the element it does not find
SetGammaAttaches(vf, x) ==
    [vf EXCEPT !.gamma = << [gamma |-> clamp(x, F64(1), F64(3))] >>]

\* Video::set_gamma (video.rs:553-560)
set_gamma(vf, x) ==
    IF vf.gamma = << >> THEN vf
    ELSE [vf EXCEPT !.gamma[1].gamma = clamp(x, F64(1), F64(3))]

\* Video::brightness (video.rs:563-570)
brightness(vf) == IF vf.balance = << >> THEN F64(0) ELSE vf.balance[1].brightness

\* Video::set_brightness (video.rs:574-581)
set_brightness(vf, x) ==
    IF vf.balance = << >> THEN vf
    ELSE [vf EXCEPT !.balance[1].brightness = clamp(x, F64(0 - 1), F64(1))]

\* Video::contrast (video.rs:584-591)
contrast(vf) == IF vf.balance = << >> THEN F64(1) ELSE vf.balance[1].contrast

\* Video::set_contrast (video.rs:595-602)
set_contrast(vf, x) ==
    IF vf.balance = << >> THEN vf
    ELSE [vf EXCEPT !.balance[1].contrast = clamp(x, F64(0), F64(2))]

\* Video::hue (video.rs:605-612)
hue(vf) == IF vf.balance = << >> THEN F64(0) ELSE vf.balance[1].hue

\* Video::set_hue (video.rs:616-623)
set_hue(vf, x) ==
    IF vf.balance = << >> THEN vf
    ELSE [vf EXCEPT !.balance[1].hue = clamp(x, F64(0 - 1), F64(1))]

\* Video::saturation (video.rs:626-633)
saturation(vf) == IF vf.balance = << >> THEN F64(1) ELSE vf.balance[1].saturation

\* Video::set_saturation (video.rs:637-644)
set_saturation(vf, x) ==
    IF vf.balance = << >> THEN vf
    ELSE [vf EXCEPT !.balance[1].saturation = clamp(x, F64(0), F64(2))]

\* a call of a filter method: the filters it leaves, and its record
FilterCall(name, arg, vf) ==
    /\ Idle
    /\ video_filters' = vf
    /\ lastOp' = Op(name, arg, << >>, << >>, << >>, "Ok")
    /\ UNCHANGED << engine, ctorErr, readers, nested, framerate, sync, ctl, source, worker, alive,
                    xportVars, bus, slotVars, pumpVars, cpc, prim, thumb, hist >>

SetGamma(x) == FilterCall("set_gamma", Show(x), set_gamma(video_filters, x))
SetBrightness(x) == FilterCall("set_brightness", Show(x), set_brightness(video_filters, x))
SetContrast(x) == FilterCall("set_contrast", Show(x), set_contrast(video_filters, x))
SetHue(x) == FilterCall("set_hue", Show(x), set_hue(video_filters, x))
SetSaturation(x) == FilterCall("set_saturation", Show(x), set_saturation(video_filters, x))

\* Video::set_video_filters (video.rs:505-507) with VideoFilters::none(),
\* balance(), gamma() or all() of fresh elements
SetVideoFilters(withBalance, withGamma) ==
    FilterCall("set_video_filters", "",
               [balance |-> IF withBalance THEN << BalanceElement >> ELSE << >>,
                gamma   |-> IF withGamma THEN << GammaElement >> ELSE << >>])

\* Video::set_video_balance_filter (video.rs:510-512)
SetVideoBalanceFilter ==
    FilterCall("set_video_balance_filter", "",
               [video_filters EXCEPT !.balance = << BalanceElement >>])

\* Video::set_gamma_filter (video.rs:515-517)
SetGammaFilter ==
    FilterCall("set_gamma_filter", "", [video_filters EXCEPT !.gamma = << GammaElement >>])

Filters ==
    \/ \E x \in F64s : SetGamma(x)
    \/ \E x \in F64s : SetBrightness(x)
    \/ \E x \in F64s : SetContrast(x)
    \/ \E x \in F64s : SetHue(x)
    \/ \E x \in F64s : SetSaturation(x)
    \/ \E b \in BOOLEAN, g \in BOOLEAN : SetVideoFilters(b, g)
    \/ SetVideoBalanceFilter
    \/ SetGammaFilter

(* ---------------- the redraw-tick poll (video_player.rs:417-474) ---------------- *)
\* a drain loop that has no arm for Error messages
RECURSIVE NotesSkipsErrors(_)
NotesSkipsErrors(msgs) ==
    IF msgs = << >> THEN << >>
    ELSE (IF Head(msgs) = "Error" THEN << >> ELSE << "on_end_of_stream" >>)
         \o NotesSkipsErrors(Tail(msgs))

RECURSIVE Notes(_)
\* the notifications the drain loop publishes, one per message, in bus order
Notes(msgs) ==
    IF msgs = << >> THEN << >>
    ELSE << IF Head(msgs) = "Error" THEN "on_error" ELSE "on_end_of_stream" >>
         \o Notes(Tail(msgs))

\* a poll that restarts only on the pending flag, not on a looping Eos
PollRestartIgnoresLooping(pending, sawEos, loop) == pending

\* the local restart_stream after the drain loop (video_player.rs:420-425, 443-444)
PollRestart(pending, sawEos, loop) == pending \/ (sawEos /\ loop)

\* a poll that never pauses at the end of the stream
PollEosPauseNever(sawEos, loop) == FALSE

\* the local eos_pause after the drain loop (video_player.rs:426, 445-447)
PollEosPause(sawEos, loop) == sawEos /\ ~loop

\* a poll that leaves Internal.restart_stream as it found it
PollClearKeepsFlag(t) == t

\* video_player.rs:420-425: a poll that finds the restart flag takes it down
PollClear(t) ==
    IF t.restart_stream
    THEN Did([t EXCEPT !.restart_stream = FALSE], "restart_stream", "false")
    ELSE t

\* video_player.rs:453-461: restart wins over the end-of-stream pause; a
\* restart that cannot seek is logged, not returned
PollTail(t, restart, eos_pause, ok) ==
    IF restart THEN [restart_stream_(t, ok) EXCEPT !.result = "Ok"]
    ELSE IF eos_pause
         THEN set_paused(Did([t EXCEPT !.is_eos = TRUE], "is_eos", "true"), TRUE)
         ELSE t

\* a poll that asks for no redraw when it has nothing to do
PollScheduleStopsWhenIdle(entered) == IF entered THEN "NextFrame" ELSE "none"

\* the redraw the poll requests: RedrawRequest::NextFrame at the end of its
\* body (line 469), RedrawRequest::At(now + 32 ms) when it skipped it (471-473)
PollSchedule(entered) == IF entered THEN "NextFrame" ELSE "At32ms"

\* Event::Window(RedrawRequested), all but its use of upload_frame: ok is the
\* backend's answer to the seek of a restart
PollBody(ok) ==
    /\ Writing
    /\ cpc' = "idle"
    /\ IF restart_stream \/ (~is_eos /\ ~paused(Cur))
       THEN LET t0 == PollClear(Cur)
                sawEos == Has(bus, "Eos")
                t == PollTail(t0, PollRestart(restart_stream, sawEos, looping),
                              PollEosPause(sawEos, looping), ok)
            IN /\ Apply(t)
               /\ bus' = << >>
               /\ lastOp' = Op("poll", "entered", t.calls, bus,
                               Notes(bus) \o (IF upload_frame THEN << "on_new_frame" >>
                                              ELSE << >>),
                               PollSchedule(TRUE))
               /\ hist' = [hist EXCEPT !.staleEos = FALSE]
       ELSE /\ lastOp' = Op("poll", "skipped", << >>, << >>, << >>, PollSchedule(FALSE))
            /\ UNCHANGED << is_eos, restart_stream, source, speed, position, seg, muted,
                            bus, hist >>
    /\ UNCHANGED << engine, ctorVars, worker, alive, looping, pumpVars, prim, thumb >>

\* a poll that takes the flag (swap) where the code only loads it
PollSwapsFlag(ok) ==
    /\ PollBody(ok)
    /\ upload_frame' = FALSE
    /\ UNCHANGED << frame, frameLock, framePoisoned, last_frame_time >>

\* line 463: inner.upload_frame.load(SeqCst) only reads the flag
Poll(ok) == PollBody(ok) /\ UNCHANGED slotVars

Transport ==
    \/ \E p \in BOOLEAN : SetPaused(p)
    \/ \E b \in BOOLEAN : SetLooping(b)
    \/ \E b \in BOOLEAN : SetMuted(b)
    \/ \E pos \in Positions, accurate \in BOOLEAN, ok \in BOOLEAN : Seek(pos, accurate, ok)
    \/ \E ok \in BOOLEAN : RestartStream(ok)
    \/ \E msg \in {"Error", "Eos"} : BusPost(msg)
    \/ \E ok \in BOOLEAN : Poll(ok)

(* ---------------- draw (video_player.rs:275-339) and the render step ---------------- *)
\* the consumer's read of the slot: what it got and what had been stored since
\* the read before
ReadSlot(h) == [h EXCEPT !.read = frame, !.pendingAtRead = h.pending, !.pending = << >>]

\* a smoother that writes the backend's av-offset on every update
SetAvOffsetWritesAlways(y, offset) ==
    IF y.sync_av
    THEN LET n   == y.counter + 1
             avg == (y.avg * (n - 1)) \div n + offset \div n
         IN [y EXCEPT !.counter = n, !.avg = avg, !.av_offset = 0 - avg]
    ELSE y

\* Internal::set_av_offset (video.rs:233-243), integer nanoseconds
set_av_offset(y, offset) ==
    IF y.sync_av
    THEN LET n   == y.counter + 1
             avg == (y.avg * (n - 1)) \div n + offset \div n
         IN [y EXCEPT !.counter = n, !.avg = avg,
                      !.av_offset = IF n % AvOffsetPeriod = 0 THEN 0 - avg ELSE @]
    ELSE y

Latencies == {0, MaxLatency, MaxLatency * SlowFrame}

\* one call of Internal::set_av_offset, as draw makes it for a frame that
\* arrived offset nanoseconds ago; the record lists the property it wrote
SetAvOffset(offset) ==
    /\ Idle
    /\ sync.counter < MaxUpdates
    /\ sync' = set_av_offset(sync, offset)
    /\ lastOp' = Op("set_av_offset", ToString(offset),
                    IF sync'.av_offset # sync.av_offset \/
                       (sync.sync_av /\ sync'.counter % AvOffsetPeriod = 0)
                    THEN << << "av-offset", ToString(sync'.av_offset) >> >> ELSE << >>,
                    << >>, << >>, "Ok")
    /\ UNCHANGED << engine, ctorErr, readers, nested, framerate, ctl, video_filters, source, worker, alive,
                    xportVars, bus, slotVars, pumpVars, cpc, prim, thumb, hist >>

\* VideoPlayer::draw: upload_frame.swap(false); if it was set, the latency
\* since last_frame_time (offset) goes to the sync smoother; then the primitive
\* is queued with the value swapped out and a clone of the Arc of the frame mutex
\* lockOk is the LockResult of last_frame_time.lock() (lines 313-317): on Err
\* unwrap_or_else puts Instant::now() in the place of the arrival time, so the
\* latency handed to the smoother is that of the next line, 0; draw returns ()
DrawBody(offset, lockOk) ==
    /\ Writing
    /\ prim' = upload_frame
    /\ upload_frame' = FALSE
    /\ sync' = IF upload_frame THEN set_av_offset(sync, IF lockOk THEN offset ELSE 0)
               ELSE sync
    /\ cpc' = "prepare"
    /\ hist' = [hist EXCEPT !.clearedInOp = TRUE]
    /\ lastOp' = Op("draw", IF lockOk THEN "" ELSE "time_lock_poisoned", << >>, << >>,
                    << >>, "Ok")
    /\ UNCHANGED << engine, ctorErr, readers, nested, framerate, ctl, video_filters, source, worker, alive,
                    xportVars, bus,
                    frame, frameLock, framePoisoned, last_frame_time, pumpVars, thumb >>

\* draw while the mutex of last_frame_time is sound
Draw(offset) == DrawBody(offset, TRUE)

\* draw of a new frame while the mutex of last_frame_time is poisoned
DrawPoisoned == upload_frame /\ DrawBody(0, FALSE)

\* the renderer prepares the primitive: nothing to upload
PrepareSkip ==
    /\ cpc = "prepare"
    /\ ~prim \/ framePoisoned
    /\ cpc' = "idle"
    /\ hist' = [hist EXCEPT !.clearedInOp = FALSE]
    /\ UNCHANGED << engine, ctorVars, source, worker, alive, xportVars, bus, slotVars,
                    pumpVars, prim, thumb, lastOp >>

\* the renderer prepares the primitive: it locks the frame mutex to upload
PrepareLock ==
    /\ cpc = "prepare"
    /\ prim /\ ~framePoisoned
    /\ frameLock = "free"
    /\ frameLock' = "consumer"
    /\ cpc' = "prepare_locked"
    /\ UNCHANGED << engine, ctorVars, source, worker, alive, xportVars, bus, frame,
                    framePoisoned, upload_frame, last_frame_time, pumpVars, prim,
                    thumb, lastOp, hist >>

\* the sample is mapped and uploaded, the guard released
PrepareUpload ==
    /\ cpc = "prepare_locked"
    /\ frameLock' = "free"
    /\ cpc' = "idle"
    /\ hist' = [ReadSlot(hist) EXCEPT !.clearedInOp = FALSE]
    /\ lastOp' = [lastOp EXCEPT !.result = "Uploaded"]
    /\ UNCHANGED << engine, ctorVars, source, worker, alive, xportVars, bus, frame,
                    framePoisoned, upload_frame, last_frame_time, pumpVars, prim, thumb >>

(* ---------------- Video::thumbnails (video.rs:816-862) ---------------- *)
\* the position lists tried: none, one position, two positions
ThumbLists == { << >>, << 0 >>, << MaxPos >>, << MaxPos, 0 >> }

\* lines 826-831: the state to restore is read, then set_paused(false),
\* set_muted(true); queryOk is whether query_position answers (position() maps
\* no answer to 0)
ThumbBegin(positions, queryOk) ==
    /\ Idle
    /\ LET t == [set_paused(Cur, FALSE) EXCEPT !.muted = TRUE]
       IN /\ Apply(t)
          /\ lastOp' = Op("thumbnails", "", t.calls, << >>, << >>, "running")
    /\ thumb' = [paused |-> paused(Cur), muted |-> muted,
                 pos |-> IF queryOk THEN position ELSE 0,
                 rest |-> positions, out |-> 0, err |-> "none"]
    /\ cpc' = IF positions = << >> THEN "thumb_restore" ELSE "thumb_seek"
    /\ hist' = [hist EXCEPT !.clearedInOp = FALSE]
    /\ UNCHANGED << engine, ctorVars, worker, alive, looping, bus, slotVars, pumpVars, prim >>

\* line 840: inner.seek(pos, true)?
ThumbSeek(ok) ==
    /\ cpc = "thumb_seek"
    /\ LET t == seek(Cur, Head(thumb.rest), TRUE, ok)
       IN Apply(t)
    /\ UNCHANGED lastOp
    /\ IF ok
       THEN cpc' = "thumb_clear" /\ UNCHANGED thumb
       ELSE cpc' = "thumb_restore" /\ thumb' = [thumb EXCEPT !.err = SeekError]
    /\ hist' = [hist EXCEPT !.stale = IF ok THEN pumpSample ELSE 0]
    /\ UNCHANGED << engine, ctorVars, worker, alive, looping, bus, slotVars, pumpVars,
                    prim >>

\* line 841: inner.upload_frame.store(false, SeqCst)
ThumbClear ==
    /\ cpc = "thumb_clear"
    /\ upload_frame' = FALSE
    /\ cpc' = "thumb_spin"
    /\ hist' = [hist EXCEPT !.clearedInOp = TRUE]
    /\ UNCHANGED << engine, ctorVars, source, worker, alive, xportVars, bus, frame,
                    frameLock, framePoisoned, last_frame_time, pumpVars, prim, thumb,
                    lastOp >>

\* lines 842-844: the spin-wait ends when the worker has set the flag
ThumbSpin ==
    /\ cpc = "thumb_spin"
    /\ upload_frame
    /\ cpc' = "thumb_lock"
    /\ UNCHANGED << engine, ctorVars, source, worker, alive, xportVars, bus, slotVars,
                    pumpVars, prim, thumb, lastOp, hist >>

\* line 845: inner.frame.lock().map_err(|_| Error::Lock)?
ThumbLock ==
    /\ cpc = "thumb_lock"
    /\ IF framePoisoned
       THEN /\ cpc' = "thumb_restore"
            /\ thumb' = [thumb EXCEPT !.err = "Lock"]
            /\ UNCHANGED frameLock
       ELSE /\ frameLock = "free"
            /\ frameLock' = "consumer"
            /\ cpc' = "thumb_convert"
            /\ UNCHANGED thumb
    /\ UNCHANGED << engine, ctorVars, source, worker, alive, xportVars, bus, frame,
                    framePoisoned, upload_frame, last_frame_time, pumpVars, prim,
                    lastOp, hist >>

\* lines 846-852: readable() and yuv_to_rgba under the guard.  how = "ok": the
\* image is produced; "unreadable": readable() is None, Err(Error::Lock);
\* "panic": an index of yuv_to_rgba (lines 876-878) is out of the mapped
\* buffer, the guard is dropped while panicking and the mutex is poisoned
ThumbConvert(how) ==
    /\ cpc = "thumb_convert"
    /\ frameLock' = "free"
    /\ framePoisoned' = (how = "panic")
    /\ hist' = [ReadSlot(hist) EXCEPT !.clearedInOp = (how = "ok" /\ Len(thumb.rest) > 1),
                                      !.stale = 0]
    /\ CASE how = "ok" ->
              /\ thumb' = [thumb EXCEPT !.out = @ + 1, !.rest = Tail(@)]
              /\ cpc' = IF Len(thumb.rest) > 1 THEN "thumb_seek" ELSE "thumb_restore"
              /\ UNCHANGED lastOp
         [] how = "unreadable" ->
              /\ thumb' = [thumb EXCEPT !.err = "Lock"]
              /\ cpc' = "thumb_restore"
              /\ UNCHANGED lastOp
         [] how = "panic" ->
              /\ thumb' = NoThumb
              /\ cpc' = "idle"
              /\ lastOp' = [lastOp EXCEPT !.result = "panic"]
    /\ UNCHANGED << engine, ctorVars, source, worker, alive, xportVars, bus, frame,
                    upload_frame, last_frame_time, pumpVars, prim >>

\* lines 857-861: set_paused(paused); set_muted(muted); self.seek(pos, true)?; out
ThumbRestore(ok) ==
    /\ cpc = "thumb_restore"
    /\ LET t == seek([set_paused(Cur, thumb.paused) EXCEPT !.muted = thumb.muted],
                     thumb.pos, TRUE, ok)
       IN /\ Apply(t)
          /\ lastOp' = [lastOp EXCEPT !.calls = @ \o t.calls,
                                      !.result = IF ~ok THEN SeekError
                                                 ELSE IF thumb.err # "none" THEN thumb.err
                                                 ELSE "Ok"]
    /\ thumb' = NoThumb
    /\ cpc' = "idle"
    /\ hist' = [hist EXCEPT !.clearedInOp = FALSE, !.stale = 0]
    /\ UNCHANGED << engine, ctorVars, worker, alive, looping, bus, slotVars, pumpVars, prim >>

Thumbnails ==
    \/ \E positions \in ThumbLists, queryOk \in BOOLEAN : ThumbBegin(positions, queryOk)
    \/ \E ok \in BOOLEAN : ThumbSeek(ok)
    \/ ThumbClear
    \/ ThumbSpin
    \/ ThumbLock
    \/ \E how \in {"ok", "unreadable", "panic"} : ThumbConvert(how)
    \/ \E ok \in BOOLEAN : ThumbRestore(ok)

Render ==
    \/ \E offset \in 0 .. MaxLatency : Draw(offset)
    \/ PrepareSkip
    \/ PrepareLock
    \/ PrepareUpload

(* ---------------- impl Drop for Video (video.rs:280-299) ---------------- *)
\* lines 282-290: set_state(Null).expect(..) panics when the transition is
\* refused, before alive is cleared and before the handle is taken: the
\* JoinHandle is then dropped with the Internal, which detaches the thread
DropBegin(nullOk) ==
    /\ Idle
    /\ source' = IF nullOk THEN "Null" ELSE source
    /\ IF nullOk
       THEN /\ alive' = FALSE
            /\ worker' = "taken"
            /\ cpc' = "drop_join"
            /\ UNCHANGED engine
       ELSE /\ engine' = "drop_panicked"
            /\ worker' = "detached"
            /\ UNCHANGED << alive, cpc >>
    /\ lastOp' = Op("drop", "", << >>, << >>, << >>,
                    IF nullOk THEN "running" ELSE "panic")
    /\ UNCHANGED << ctorVars, xportVars, bus, slotVars, pumpVars, prim, thumb, hist >>

\* lines 290-297: worker.join() returns once the thread has left its loop
DropJoin ==
    /\ cpc = "drop_join"
    /\ pumpPc = "done"
    /\ engine' = "dropped"
    /\ worker' = "none"
    /\ cpc' = "idle"
    /\ hist' = [hist EXCEPT !.joined = @ + 1]
    /\ lastOp' = [lastOp EXCEPT !.result = "returned"]
    /\ UNCHANGED << ctorVars, source, alive, xportVars, bus, slotVars, pumpVars, prim, thumb >>

Drop == (\E nullOk \in BOOLEAN : DropBegin(nullOk)) \/ DropJoin

Init ==
    /\ engine = "none" /\ ctorErr = "none" /\ source = "Null"
    /\ framerate = << 0, 0 >> /\ worker = "none" /\ alive = FALSE
    /\ sync = NoSync /\ speed = 1 /\ ctl = NoCtl /\ seg = NoSeek
    /\ video_filters = VideoFilters_none /\ readers = {}
    /\ nested = [t \in 1 .. MaxReaders |-> "none"]
    /\ looping = FALSE /\ is_eos = FALSE /\ restart_stream = FALSE
    /\ muted = FALSE /\ position = 0 /\ bus = << >>
    /\ frame = 0 /\ frameLock = "free" /\ framePoisoned = FALSE
    /\ upload_frame = FALSE /\ last_frame_time = 0
    /\ pumpPc = "none" /\ pumpSample = 0 /\ nextSample = 1
    /\ cpc = "idle" /\ prim = FALSE /\ thumb = NoThumb
    /\ lastOp = [op |-> "none", arg |-> "none",
                 pre |-> [is_eos |-> FALSE, restart_stream |-> FALSE, source |-> "Null",
                          looping |-> FALSE, position |-> 0, speed |-> 1],
                 calls |-> << >>, drained |-> << >>, published |-> << >>,
                 result |-> "none"]
    /\ hist = NoHist

Construct ==
    \E failAt \in {"none"} \cup {CtorSteps[i] : i \in 1 .. Len(CtorSteps)},
       reached \in {"Null", "Ready", "Paused"}, n \in FrRange, d \in FrRange,
       avOffset \in BOOLEAN :
        FromGstPipeline(failAt, reached, << n, d >>, avOffset)

\* the state a successful from_gst_pipeline returns with, for a pipeline of
\* framerate 1/1 that has the av-offset property or not
LiveState(avOffset) ==
    /\ engine = "live" /\ ctorErr = "none" /\ source = "Playing"
    /\ framerate = << 1, 1 >> /\ worker = "some" /\ alive = TRUE
    /\ sync = [NoSync EXCEPT !.sync_av = avOffset] /\ speed = 1 /\ ctl = NoCtl /\ seg = NoSeek
    /\ video_filters = VideoFilters_none /\ readers = {}
    /\ nested = [t \in 1 .. MaxReaders |-> "none"]
    /\ looping = FALSE /\ is_eos = FALSE /\ restart_stream = FALSE
    /\ muted = FALSE /\ position = 0 /\ bus = << >>
    /\ frame = 0 /\ frameLock = "free" /\ framePoisoned = FALSE
    /\ upload_frame = FALSE /\ last_frame_time = 0
    /\ pumpPc = "check" /\ pumpSample = 0 /\ nextSample = 1
    /\ cpc = "idle" /\ prim = FALSE /\ thumb = NoThumb
    /\ lastOp = [op |-> "from_gst_pipeline", arg |-> "none",
                 pre |-> [is_eos |-> FALSE, restart_stream |-> FALSE, source |-> "Null",
                          looping |-> FALSE, position |-> 0, speed |-> 1],
                 calls |-> << << "started", "Playing" >> >>, drained |-> << >>,
                 published |-> << >>, result |-> "Ok"]
    /\ hist = [NoHist EXCEPT !.spawned = 1]

\* a pipeline that has no av-offset property
InitLive == LiveState(FALSE)

\* a pipeline with or without the av-offset property
InitSync == \E avOffset \in BOOLEAN : LiveState(avOffset)

\* the whole system
Next ==
    \/ Construct
    \/ Pump
    \/ Transport
    \/ \E rate \in Speeds, queryOk \in BOOLEAN, ok \in BOOLEAN : SetSpeed(rate, queryOk, ok)
    \/ \E v \in Volumes, unmutes \in BOOLEAN : SetVolume(v, unmutes)
    \/ \E url \in 1 .. MaxUrl, readyOk \in BOOLEAN, reached \in States, at \in Positions :
          SetSubtitleUrl(url, readyOk, reached, at)
    \/ Advance
    \/ Render
    \/ Thumbnails
    \/ Filters
    \/ Reads
    \/ Sizes
    \/ WriteWait
    \/ DrawPoisoned
    \/ Drop

Spec == Init /\ [][Next]_vars

\* construction, the worker thread and teardown, with the operations that
\* change the backend state in between
NextLifecycle ==
    \/ Construct
    \/ PumpCheck
    \/ PumpPullTimeout
    \/ \E fresh \in BOOLEAN : PumpPullPreroll(fresh)
    \/ PumpPullSample
    \/ \E lockOk \in BOOLEAN : PumpStamp(lockOk)
    \/ PumpLock
    \/ PumpStore
    \/ PumpFlag
    \/ Drop
    \/ \E p \in BOOLEAN : SetPaused(p)
    \/ \E ok \in BOOLEAN : RestartStream(ok)

SpecLifecycle == Init /\ [][NextLifecycle]_vars

\* the same with its threads scheduled: the worker is a running OS thread
\* whose pulls return after 16 ms at the latest, and join returns once the
\* thread has left its closure
SpecShutdown == SpecLifecycle /\ WF_vars(Pump) /\ WF_vars(DropJoin)

\* the frame hand-off: the worker thread, playing or paused, against draw,
\* poll, thumbnails and Drop
NextHandoff ==
    \/ Pump
    \/ Render
    \/ Thumbnails
    \/ \E ok \in BOOLEAN : Poll(ok)
    \/ \E p \in BOOLEAN : SetPaused(p)
    \/ Drop

SpecHandoff == InitLive /\ [][NextHandoff]_vars

\* the transport state machine: user commands, bus messages and the poll
NextTransport == Transport

SpecTransport == InitLive /\ [][NextTransport]_vars

\* speed and seeking: the commands that seek, the poll and its bus, and the
\* backend playing through the segment of the last seek
NextSpeed ==
    \/ \E rate \in Speeds, queryOk \in BOOLEAN, ok \in BOOLEAN : SetSpeed(rate, queryOk, ok)
    \/ \E pos \in Positions, accurate \in BOOLEAN, ok \in BOOLEAN : Seek(pos, accurate, ok)
    \/ \E p \in BOOLEAN : SetPaused(p)
    \/ \E ok \in BOOLEAN : RestartStream(ok)
    \/ \E ok \in BOOLEAN : Poll(ok)
    \/ BusPost("Eos")
    \/ Advance

SpecSpeed == InitLive /\ [][NextSpeed]_vars

\* the backend properties: volume, mute and the subtitle URL, on an engine
\* that is paused, playing or at the end of its stream
NextSettings ==
    \/ \E v \in Volumes, unmutes \in BOOLEAN : SetVolume(v, unmutes)
    \/ \E b \in BOOLEAN : SetMuted(b)
    \/ \E url \in 1 .. MaxUrl, readyOk \in BOOLEAN, reached \in States, at \in Positions :
          SetSubtitleUrl(url, readyOk, reached, at)
    \/ \E p \in BOOLEAN : SetPaused(p)
    \/ \E ok \in BOOLEAN : Poll(ok)
    \/ BusPost("Eos")

SpecSettings == InitLive /\ [][NextSettings]_vars

\* thumbnail extraction against a worker thread that keeps publishing, from
\* any paused, muted, speed and position
NextThumbs ==
    \/ PumpCheck
    \/ \E fresh \in BOOLEAN : PumpPullPreroll(fresh)
    \/ PumpPullSample
    \/ PumpStamp(TRUE)
    \/ PumpLock
    \/ PumpStore
    \/ PumpFlag
    \/ Thumbnails
    \/ \E rate \in Speeds, queryOk \in BOOLEAN, ok \in BOOLEAN : SetSpeed(rate, queryOk, ok)
    \/ \E p \in BOOLEAN : SetPaused(p)
    \/ \E b \in BOOLEAN : SetMuted(b)
    \/ Advance

SpecThumbs == InitLive /\ [][NextThumbs]_vars

\* thumbnail extraction on an engine that plays or has ended and is paused:
\* the worker thread and the poll with the end-of-stream message
NextThumbRace ==
    \/ PumpCheck
    \/ PumpPullTimeout
    \/ \E fresh \in BOOLEAN : PumpPullPreroll(fresh)
    \/ PumpPullSample
    \/ PumpStamp(TRUE)
    \/ PumpLock
    \/ PumpStore
    \/ PumpFlag
    \/ Thumbnails
    \/ \E ok \in BOOLEAN : Poll(ok)
    \/ BusPost("Eos")

SpecThumbRace == InitLive /\ [][NextThumbRace]_vars

\* thumbnail extraction against the worker thread alone, both scheduled: every
\* thread that can take its next step takes it (the mutex is handed over, the
\* spin sees the flag), and a sample that the sink holds is pulled, however
\* many pulls timed out before; the backend yields MaxSamples samples and then
\* no more
NextThumbSpin ==
    \/ PumpCheck
    \/ PumpPullTimeout
    \/ PumpPullSample
    \/ PumpStamp(TRUE)
    \/ PumpLockFailed
    \/ PumpLock
    \/ PumpStore
    \/ PumpFlag
    \/ Thumbnails

FairThumbSpin ==
    /\ WF_vars(PumpCheck) /\ SF_vars(PumpPullSample) /\ WF_vars(PumpStamp(TRUE))
    /\ WF_vars(PumpLockFailed)
    /\ WF_vars(PumpLock) /\ WF_vars(PumpStore) /\ WF_vars(PumpFlag)
    /\ WF_vars(\E ok \in BOOLEAN : ThumbSeek(ok))
    /\ WF_vars(ThumbClear) /\ WF_vars(ThumbSpin) /\ WF_vars(ThumbLock)
    /\ WF_vars(\E how \in {"ok", "unreadable", "panic"} : ThumbConvert(how))
    /\ WF_vars(\E ok \in BOOLEAN : ThumbRestore(ok))

SpecThumbSpin == InitLive /\ [][NextThumbSpin]_vars /\ FairThumbSpin

\* the filter methods, from the state from_gst_pipeline returns with
NextFilters == Filters

SpecFilters == InitLive /\ [][NextFilters]_vars

\* the sync smoother, fed one latency after the other
NextSync == \E offset \in Latencies : SetAvOffset(offset)

SpecSync == InitSync /\ [][NextSync]_vars

\* the lock around Internal: property reads on other threads against the
\* consumer's draw, poll and commands
NextLock ==
    \/ Reads
    \/ \E offset \in 0 .. MaxLatency : Draw(offset)
    \/ PrepareSkip
    \/ \E ok \in BOOLEAN : Poll(ok)
    \/ \E p \in BOOLEAN : SetPaused(p)
    \/ \E pos \in Positions, accurate \in BOOLEAN, ok \in BOOLEAN : Seek(pos, accurate, ok)
    \/ BusPost("Eos")

SpecLock == InitLive /\ [][NextLock]_vars

\* the lock around Internal against the calls that read it twice: the worker
\* thread, draw with the renderer's upload and the poll on the consumer's
\* thread, property reads, size() and overlay() on other threads
NextReentry ==
    \/ PumpCheck
    \/ PumpPullSample
    \/ PumpStamp(TRUE)
    \/ PumpLock
    \/ PumpStore
    \/ PumpFlag
    \/ Render
    \/ \E ok \in BOOLEAN : Poll(ok)
    \/ WriteWait
    \/ Reads
    \/ Sizes

SpecReentry == InitLive /\ [][NextReentry]_vars

\* poisoned mutexes: the worker thread, draw and thumbnails when a lock()
\* returns Err
NextPoison ==
    \/ PumpCheck
    \/ PumpPullTimeout
    \/ PumpPullSample
    \/ \E lockOk \in BOOLEAN : PumpStamp(lockOk)
    \/ PumpLockFailed
    \/ PumpLock
    \/ PumpStore
    \/ PumpFlag
    \/ Render
    \/ DrawPoisoned
    \/ Thumbnails

SpecPoison == InitLive /\ [][NextPoison]_vars

(* ======================= the claims ======================= *)
Last(q) == q[Len(q)]
FailedIteration == pumpPc \in {"pull", "stamp", "lock"} /\ pumpPc' = "check"
ConsumerReads == cpc \in {"prepare_locked", "thumb_convert"} /\ cpc' # cpc

\* C1: after N >= 1 stores of the worker thread and no consumer read in
\* between, a consumer read returns the Nth sample; the slot holds only the
\* sample stored last; and the worker's store is never held back by a frame
\* the consumer has not taken yet (it needs the mutex free, nothing else).
C1_LatestFrameWins ==
    /\ Len(hist.pendingAtRead) >= 1 => hist.read = Last(hist.pendingAtRead)
    /\ (hist.pending # << >> /\ frameLock # "pump") => frame = Last(hist.pending)
    /\ (pumpPc = "lock" /\ ~framePoisoned /\ frameLock = "free") => ENABLED PumpLock

\* a consumer read that followed two or more stores and returned the last of them
C1_Witness ==
    /\ Len(hist.pendingAtRead) >= 2
    /\ hist.read = Last(hist.pendingAtRead)
    /\ hist.overwrote

\* C2: upload_frame goes from false to true only in the worker's step of
\* line 465, after the store of that iteration and with the frame mutex
\* released by the worker; no step of the consumer sets it; an iteration that
\* ends on a timeout or a failed lock leaves the flag and the slot as they were.
C2_FlagSetOnlyByPumpAfterStore ==
    [][ /\ (~upload_frame /\ upload_frame') =>
              /\ pumpPc = "flag" /\ pumpPc' = "check"
              /\ frameLock # "pump"
              /\ frame = pumpSample /\ pumpSample # 0
              /\ UNCHANGED << cpc, prim, thumb, lastOp >>
        /\ FailedIteration => UNCHANGED << upload_frame, frame >>
      ]_vars

\* the worker has just published a sample: flag up, slot written, mutex free
C2_Witness ==
    /\ upload_frame /\ hist.lastIter = "published" /\ pumpPc = "check"
    /\ frame # 0 /\ frameLock = "free"

\* C3 as stated: the flag is cleared only once the consumer has read the
\* buffered sample, i.e. no clear happens while a stored sample is still unread.
C3_ClearedOnlyAfterRead ==
    [][ (upload_frame /\ ~upload_frame') => hist.pending = << >> ]_vars

\* C3 amended: the flag is cleared only by the consumer, by draw's swap and by
\* thumbnails' store, never by the worker or the poll; both clear it before
\* they read the slot: draw reads afterwards only if the swap returned true,
\* thumbnails only after the worker has set the flag again.
C3_ClearedByConsumerBeforeRead ==
    [][ /\ (upload_frame /\ ~upload_frame') =>
              /\ \/ cpc = "idle" /\ cpc' = "prepare" /\ prim'
                 \/ cpc = "thumb_clear" /\ cpc' = "thumb_spin"
              /\ UNCHANGED pumpVars
        /\ ConsumerReads => hist.clearedInOp
        /\ (cpc' = "prepare_locked") => prim'
        /\ (cpc = "thumb_spin" /\ cpc' = "thumb_lock") => upload_frame
      ]_vars

\* a consumer that cleared the flag and now holds the mutex for its read
C3_Witness ==
    /\ hist.clearedInOp
    /\ cpc \in {"prepare_locked", "thumb_convert"}
    /\ frameLock = "consumer"

\* C4: once Drop is over, on every path, the pipeline is in the Null state,
\* alive is false and the worker thread has left its loop and been joined.
C4_TeardownStopsAndJoins ==
    engine \in {"dropped", "drop_panicked"} =>
        /\ source = "Null"
        /\ ~alive
        /\ pumpPc = "done"
        /\ hist.joined = 1

\* C5: one worker thread per engine: spawned once by a successful
\* construction, never again, and joined exactly once, at teardown.
C5_OneWorkerJoinedOnce ==
    /\ hist.spawned <= 1
    /\ (engine \in {"live", "dropped", "drop_panicked"}) => hist.spawned = 1
    /\ engine \in {"none", "failed"} => hist.spawned = 0
    /\ hist.joined <= 1
    /\ engine \in {"none", "failed", "live"} => hist.joined = 0
    /\ engine \in {"dropped", "drop_panicked"} => hist.joined = 1 /\ worker = "none"

\* C6: the worker thread leaves its loop only from the loop test and only with
\* alive false; a pull timeout, a failed lock of last_frame_time and a failed
\* lock of the frame mutex end the iteration only: nothing is published and the
\* thread goes back to the loop test.
C6_PumpExitsOnlyOnAlive ==
    [][ /\ (pumpPc # "done" /\ pumpPc' = "done") => (pumpPc = "check" /\ ~alive)
        /\ FailedIteration =>
              /\ UNCHANGED << upload_frame, frame >>
              /\ hist'.lastIter \in {"timeout", "time_lock_failed", "frame_lock_failed"}
        /\ (pumpPc = "lock" /\ framePoisoned /\ pumpPc' # pumpPc) => FailedIteration
        /\ (pumpPc = "check" /\ alive /\ pumpPc' # pumpPc) => pumpPc' = "pull"
      ]_vars

\* the worker is pulling again after an iteration lost to the poisoned frame mutex
C6_Witness ==
    /\ hist.lastIter = "frame_lock_failed"
    /\ pumpPc = "pull"
    /\ framePoisoned /\ alive

C8_FramerateChecked ==
    LET negotiated == lastOp.op = "from_gst_pipeline" /\ lastOp.arg = "none"
        finite     == framerate[2] # 0
        positive   == framerate[1] * framerate[2] > 0
    IN /\ engine \in {"live", "dropped", "drop_panicked"} => finite /\ positive
       /\ (negotiated /\ ~(finite /\ positive)) => engine = "failed" /\ ctorErr = "Framerate"
       /\ ctorErr = "Framerate" => ~(finite /\ positive)

\* a construction refused for a framerate of 0/1
C8_Witness ==
    /\ engine = "failed" /\ ctorErr = "Framerate"
    /\ framerate = << 0, 1 >>

ResumedAtEos ==
    lastOp.op = "set_paused" /\ lastOp.arg = "FALSE" /\ lastOp.pre.is_eos
SeekToStart ==
    Has(lastOp.calls, << "seek", "0" >>) \/ Has(lastOp.calls, << "seek_rejected", "0" >>)

\* C9 as stated: SetPaused(false) with is_eos set arms restart_stream and does
\* not put the backend into the playing state in that call.
C9_ResumeAtEosOnlyArms ==
    ResumedAtEos =>
        /\ restart_stream
        /\ ~Has(lastOp.calls, << "set_state", "Playing" >>)

\* C9 amended: SetPaused(false) with is_eos set puts the backend into the
\* playing state and arms restart_stream in the same call, is_eos staying set;
\* a poll that finds restart_stream set clears it, clears is_eos, leaves the
\* backend playing and issues a seek to position 0, which restarts the stream
\* from 0 when the backend accepts it and the stored speed is positive.
C9_ResumeAtEosPlaysAndArms ==
    /\ ResumedAtEos =>
          /\ restart_stream /\ is_eos
          /\ source = "Playing"
          /\ lastOp.calls = << << "set_state", "Playing" >>, << "restart_stream", "true" >> >>
    /\ (lastOp.op = "poll" /\ lastOp.pre.restart_stream) =>
          /\ ~restart_stream /\ ~is_eos
          /\ source = "Playing"
          /\ SeekToStart
          /\ (Has(lastOp.calls, << "seek", "0" >>) /\ speed > 0) => position = 0

\* a poll that restarted, from position 0, a finished stream the user had resumed
C9_Witness ==
    /\ lastOp.op = "poll" /\ lastOp.pre.restart_stream /\ lastOp.pre.is_eos
    /\ lastOp.pre.position # 0 /\ position = 0
    /\ ~is_eos /\ source = "Playing"

LoopingEosPoll ==
    lastOp.op = "poll" /\ lastOp.pre.looping /\ Has(lastOp.drained, "Eos")

\* C10: a poll that drains an Eos message while looping is set ends with
\* is_eos false, a seek to position 0 issued and the backend playing, and in
\* that poll the backend is never set to Paused and is_eos is never set.
C10_LoopRestartsWithoutPause ==
    LoopingEosPoll =>
        /\ ~is_eos
        /\ source = "Playing"
        /\ SeekToStart
        /\ ~Has(lastOp.calls, << "set_state", "Paused" >>)
        /\ ~Has(lastOp.calls, << "is_eos", "true" >>)

\* a looping stream taken back from position 1 to 0 by the poll that drained its Eos
C10_Witness ==
    /\ LoopingEosPoll
    /\ ~lastOp.pre.restart_stream
    /\ lastOp.pre.position # 0 /\ position = 0
    /\ source = "Playing"

\* a step of the consumer operation op (Pre holds all that an operation reads,
\* so a step that leaves lastOp as it was repeats one already looked at)
Ran(op) == lastOp' # lastOp /\ lastOp'.op = op
Seeks(calls) == Cardinality({i \in 1 .. Len(calls) : calls[i][1] = "seek"})

\* C11: after a successful restart, by an explicit RestartStream or by a poll,
\* is_eos and restart_stream are both false.
C11_RestartClearsBoth ==
    [][ (\/ Ran("restart_stream") /\ lastOp'.result = "Ok"
         \/ Ran("poll") /\ Has(lastOp'.calls, << "seek", "0" >>))
        => (~is_eos' /\ ~restart_stream') ]_vars

\* C12 as stated: no state between operations has restart_stream and is_eos
\* both true.
C12_NeverBoth == ~(restart_stream /\ is_eos)

\* C12 amended: restart_stream and is_eos are both true only in the window
\* that a resume at the end of the stream opens (set_paused(false) with is_eos
\* set: backend playing, flag armed, is_eos kept); a poll always enters when
\* the flag is set and ends with the flag down, whatever it drained, and a
\* RestartStream ends with is_eos false, so either closes the window.
C12_BothOnlyAfterResumeAtEos ==
    [][ /\ (~(restart_stream /\ is_eos) /\ restart_stream' /\ is_eos') =>
              /\ is_eos /\ ~restart_stream
              /\ source' = "Playing"
              /\ Has(lastOp'.calls, << "restart_stream", "true" >>)
        /\ (Ran("poll") /\ restart_stream) => lastOp'.arg = "entered"
        /\ (Ran("poll") /\ lastOp'.arg = "entered") => ~restart_stream'
        /\ Ran("restart_stream") => ~is_eos'
      ]_vars

\* the window open: a finished stream resumed and not polled yet
C12_Witness ==
    /\ restart_stream /\ is_eos
    /\ lastOp.op = "set_paused" /\ lastOp.pre.is_eos /\ ~lastOp.pre.restart_stream
    /\ source = "Playing"

\* C13: a successful RestartStream leaves is_eos false and the backend
\* playing, and has positioned playback at 0 by one flushing, inaccurate seek.
C13_RestartPlaysFromZero ==
    [][ (Ran("restart_stream") /\ lastOp'.result = "Ok") =>
            /\ ~is_eos'
            /\ source' = "Playing"
            /\ Seeks(lastOp'.calls) = 1
            /\ seg'.flush /\ ~seg'.accurate /\ seg'.start = 0
            /\ position' = 0
      ]_vars

Succeeded(op) == Ran(op) /\ lastOp'.result = "Ok"
\* a step in which the backend played on and no operation ran
Played == position' # position /\ UNCHANGED lastOp

\* C14: a successful SetSpeed(rate) re-anchors at the current position P with
\* one flushing seek at the new rate: P to the end of the stream for rate > 0,
\* 0 to P for rate < 0; the position stays P, and playback goes on from P in
\* the direction of the rate, upwards for rate > 0 and towards 0 for rate < 0.
C14_SetSpeedReanchors ==
    [][ /\ Succeeded("set_speed") =>
              /\ position' = position
              /\ Seeks(lastOp'.calls) = 1
              /\ seg'.flush /\ seg'.rate = speed'
              /\ speed' > 0 => (seg'.start = position /\ seg'.stop = Duration)
              /\ speed' < 0 => (seg'.start = 0 /\ seg'.stop = position)
        /\ (Played /\ lastOp.op = "set_speed" /\ lastOp.result = "Ok") =>
              /\ speed > 0 => (position' > position /\ position >= lastOp.pre.position)
              /\ speed < 0 => (position' < position /\ position <= lastOp.pre.position)
      ]_vars

\* a stream played forwards, reversed at position 1 and now back at 0
C14_Witness ==
    /\ lastOp.op = "set_speed" /\ lastOp.arg = "-1" /\ lastOp.result = "Ok"
    /\ lastOp.pre.speed = 1 /\ lastOp.pre.position = 1
    /\ seg.start = 0 /\ seg.stop = 1
    /\ position = 0

\* C15: a successful Seek(P, accurate) issues one flushing seek at the stored
\* speed and playback continues from P: the position is P and P is the end of
\* the segment that playback starts from, the start for a positive stored
\* speed and the stop for a negative one.
C15_SeekJumpsToP ==
    [][ Succeeded("seek") =>
            /\ Seeks(lastOp'.calls) = 1
            /\ seg'.flush /\ seg'.rate = speed /\ speed' = speed
            /\ \E P \in Positions :
                  /\ lastOp'.arg = ToString(P)
                  /\ position' = P
                  /\ speed > 0 => seg'.start = P
                  /\ speed < 0 => seg'.stop = P
      ]_vars

\* C16: a Seek the backend rejects returns Error::Seek; a SetSpeed returns
\* Error::Caps when the position cannot be queried, without asking for a
\* seek, and Error::Seek when the backend rejects the seek; either failure
\* leaves speed, is_eos, restart_stream, looping, the backend state, the
\* position and the segment as they were; the stored speed changes only in a
\* SetSpeed that succeeds.
C16_FailedCallChangesNothing ==
    [][ /\ (Ran("seek") /\ lastOp'.result # "Ok") =>
              /\ lastOp'.result = "Seek"
              /\ UNCHANGED << speed, is_eos, restart_stream, looping, source, position,
                              seg, muted >>
        /\ (Ran("set_speed") /\ lastOp'.result # "Ok") =>
              /\ lastOp'.result \in {"Caps", "Seek"}
              /\ lastOp'.result = "Caps" <=> lastOp'.calls = << >>
              /\ lastOp'.result = "Seek" => Has(lastOp'.calls,
                                                << "seek_rejected", ToString(position) >>)
              /\ UNCHANGED << speed, is_eos, restart_stream, looping, source, position,
                              seg, muted >>
        /\ Ran("set_speed") => (speed' # speed => lastOp'.result = "Ok")
      ]_vars

\* a reversal refused by the backend on a stream at its end: forwards as before
C16_Witness ==
    /\ lastOp.op = "set_speed" /\ lastOp.arg = "-1" /\ lastOp.result = "Seek"
    /\ lastOp.pre.is_eos /\ is_eos
    /\ speed = 1 /\ seg.rate = 1

\* C17: the stored speed is 1.0 after construction and changes only in a
\* SetSpeed that succeeds, which seeks at the new rate in the same call; no
\* other step changes it.
C17_SpeedOnlyBySetSpeed ==
    [][ /\ lastOp'.op = "from_gst_pipeline" => speed' = 1
        /\ speed' # speed =>
              /\ Succeeded("set_speed")
              /\ lastOp'.arg = ToString(speed')
              /\ Seeks(lastOp'.calls) = 1
              /\ seg'.flush /\ seg'.rate = speed'
      ]_vars

\* a reversed stream sought, restarted and polled, still reversed
C17_Witness ==
    /\ speed = 0 - 1 /\ seg.rate = 0 - 1
    /\ lastOp.op = "poll" /\ lastOp.arg = "entered" /\ lastOp.pre.speed = 0 - 1
    /\ Has(lastOp.calls, << "seek", "0" >>)

\* the step in which a thumbnails() call returns, with Ok or with an Err
ThumbnailsReturn == cpc = "thumb_restore" /\ cpc' = "idle"

\* C18: when thumbnail extraction returns, with the images or with an error,
\* paused and muted are what they were before the call and the position is
\* the position P the call started from.
C18_ThumbnailsRestore ==
    [][ ThumbnailsReturn =>
            /\ (source' = "Paused") = (lastOp.pre.source = "Paused")
            /\ muted' = thumb.muted
            /\ position' = lastOp.pre.position
      ]_vars

\* C19: SetVolume leaves the mute state as it found it, also on a backend
\* that drops the mute when its volume is changed.
C19_SetVolumeKeepsMute ==
    [][ Ran("set_volume") => muted' = muted ]_vars

\* C20: SetSubtitleURL changes the pipeline to Ready, then sets suburi, then
\* restores the paused/playing state read before the call, in this order;
\* when it returns Ok, Paused() is what it was before the call; when the
\* change to Ready is refused, suburi is not set and an error is returned.
C20_SubtitleUrlReadySetRestore ==
    [][ Ran("set_subtitle_url") =>
          IF lastOp'.result = "Ok"
          THEN /\ Len(lastOp'.calls) >= 3
               /\ lastOp'.calls[1] = << "set_state", "Ready" >>
               /\ lastOp'.calls[2] = << "suburi", lastOp'.arg >>
               /\ lastOp'.calls[3] = << "set_state",
                                        IF source = "Paused" THEN "Paused" ELSE "Playing" >>
               /\ (source' = "Paused") = (source = "Paused")
               /\ ToString(ctl'.suburi) = lastOp'.arg
          ELSE /\ lastOp'.calls = << << "set_state_refused", "Ready" >> >>
               /\ ctl'.suburi = ctl.suburi
      ]_vars

\* a paused engine given a subtitle URL and paused again afterwards
C20_Witness ==
    /\ lastOp.op = "set_subtitle_url" /\ lastOp.result = "Ok"
    /\ lastOp.pre.source = "Paused" /\ source = "Paused"
    /\ ctl.suburi = 1
    /\ Has(lastOp.calls, << "set_state", "Ready" >>)

\* the filter setters, the getter that reads each one back, the filter element
\* each needs and the domain the setter is said to clamp to
FilterSetters == {"set_gamma", "set_brightness", "set_contrast", "set_hue", "set_saturation"}
ReadBack(name, vf) ==
    CASE name = "set_gamma" -> gamma(vf)
      [] name = "set_brightness" -> brightness(vf)
      [] name = "set_contrast" -> contrast(vf)
      [] name = "set_hue" -> hue(vf)
      [] name = "set_saturation" -> saturation(vf)
ElementOf(name, vf) == IF name = "set_gamma" THEN vf.gamma ELSE vf.balance
DomainMin(name) == IF name = "set_gamma" THEN 1
                   ELSE IF name \in {"set_brightness", "set_hue"} THEN 0 - 1 ELSE 0
DomainMax(name) == IF name = "set_gamma" THEN 3
                   ELSE IF name \in {"set_brightness", "set_hue"} THEN 1 ELSE 2
DefaultOf(name) == IF name \in {"set_brightness", "set_hue"} THEN F64(0) ELSE F64(1)
InDomain(name, x) == ~x.nan /\ DomainMin(name) <= x.v /\ x.v <= DomainMax(name)

\* C21: after any filter setter is called with the filter present, the value
\* read back lies in the setter's domain; it is the input when the input lies
\* in the domain, the lower bound for an input below it and the upper bound
\* for an input above it.
C21_SettersClampToDomain ==
    [][\A name \in FilterSetters :
         (Ran(name) /\ ElementOf(name, video_filters) # << >>) =>
            \E x \in F64s :
               /\ lastOp'.arg = Show(x)
               /\ LET r == ReadBack(name, video_filters')
                  IN /\ InDomain(name, r)
                     /\ InDomain(name, x) => r = x
                     /\ (~x.nan /\ x.v < DomainMin(name)) => r = F64(DomainMin(name))
                     /\ (~x.nan /\ x.v > DomainMax(name)) => r = F64(DomainMax(name))]_vars

\* C22: while a filter element is absent (as after from_gst_pipeline), a
\* setter of that filter changes nothing and its getter returns the default:
\* gamma, contrast and saturation 1.0, brightness and hue 0.0.
C22_AbsentFilterInert ==
    [][/\ lastOp.op = "from_gst_pipeline" => video_filters = VideoFilters_none
       /\ \A name \in FilterSetters :
            /\ (Ran(name) /\ ElementOf(name, video_filters) = << >>) =>
                  UNCHANGED << video_filters, ctl, source, xportVars >>
            /\ ElementOf(name, video_filters') = << >> =>
                  ReadBack(name, video_filters') = DefaultOf(name)]_vars

\* a setter was called with a value other than the default while its filter
\* was absent and the other filter attached
C22_Witness ==
    /\ lastOp.op = "set_gamma" /\ lastOp.arg = "2"
    /\ video_filters.gamma = << >> /\ video_filters.balance # << >>

\* C23: an update of the sync smoother with latency s increments the count n
\* and sets avg to avg*(n-1)/n + s/n in integer arithmetic; it writes -avg to
\* the backend's av-offset exactly when n is a multiple of 128; without the
\* av-offset property an update changes neither avg nor n and writes nothing.
C23_SyncSmoother ==
    [][Ran("set_av_offset") =>
         \E s \in Latencies :
            /\ lastOp'.arg = ToString(s)
            /\ IF sync.sync_av
               THEN LET n == sync.counter + 1
                    IN /\ sync'.counter = n
                       /\ sync'.avg = (sync.avg * (n - 1)) \div n + s \div n
                       /\ IF n % 128 = 0
                          THEN /\ sync'.av_offset = 0 - sync'.avg
                               /\ lastOp'.calls =
                                     << << "av-offset", ToString(0 - sync'.avg) >> >>
                          ELSE /\ sync'.av_offset = sync.av_offset
                               /\ lastOp'.calls = << >>
               ELSE sync' = sync /\ lastOp'.calls = << >>]_vars

\* the 128th update wrote a negative offset
C23_Witness ==
    /\ lastOp.op = "set_av_offset" /\ sync.sync_av
    /\ sync.counter = 128 /\ sync.avg > 0 /\ sync.av_offset = 0 - sync.avg
    /\ lastOp.calls # << >>

\* the consumer's commands in the specification of the lock
Mutation == Ran("set_paused") \/ Ran("seek")
CanPoll == ENABLED (\E ok \in BOOLEAN : Poll(ok))
CanDraw == ENABLED (\E offset \in 0 .. MaxLatency : Draw(offset))
CanRead(t) == ENABLED ReadBegin(t)

C25_NoLockAcrossPull ==
    [][/\ pumpPc' = "pull" => frameLock' # "pump"
       /\ frameLock' = "pump" <=> pumpPc' = "store"
       /\ last_frame_time' # last_frame_time => pumpPc = "stamp" /\ pumpPc' = "lock"
       /\ frame' # frame => frameLock = "pump" /\ frameLock' = "free"
       /\ frameLock' = "consumer" <=> cpc' \in {"prepare_locked", "thumb_convert"}]_vars

\* the worker is in a pull while the consumer reads the sample under the mutex
C25_Witness ==
    /\ pumpPc = "pull" /\ frameLock = "consumer" /\ cpc = "thumb_convert"
    /\ hist.lastIter = "published"

\* C26: once a lock of the shared state is poisoned, every operation of the
\* caller that needs it returns LockError: thumbnails does when the frame
\* mutex is poisoned, draw does when the mutex of the arrival time is, and
\* draw then feeds no substitute latency to the sync smoother and queues
\* nothing.
C26_PoisonSurfacesAsLockError ==
    [][/\ (cpc = "thumb_lock" /\ framePoisoned /\ cpc' # cpc) => thumb'.err = "Lock"
       /\ (Ran("draw") /\ lastOp'.arg = "time_lock_poisoned") =>
             /\ lastOp'.result = "Lock"
             /\ sync' = sync /\ cpc' = "idle"]_vars

RECURSIVE Count(_, _)
Count(q, x) == IF q = << >> THEN 0
               ELSE (IF Head(q) = x THEN 1 ELSE 0) + Count(Tail(q), x)
RECURSIVE WithoutErrors(_)
WithoutErrors(q) == IF q = << >> THEN << >>
                    ELSE (IF Head(q) = "Error" THEN << >> ELSE << Head(q) >>)
                         \o WithoutErrors(Tail(q))

\* C27: every poll empties the bus of its Error and Eos messages and
\* publishes a notification for each, whether the engine is playing, paused
\* or at the end of the stream.
C27_EveryPollDrains ==
    [][Ran("poll") =>
         /\ bus' = << >>
         /\ lastOp'.drained = bus
         /\ Count(lastOp'.published, "on_error") = Count(bus, "Error")
         /\ Count(lastOp'.published, "on_end_of_stream") = Count(bus, "Eos")]_vars

\* C28: every Error message a poll drains gives one on_error notification; the
\* poll raises no failure, and is_eos, restart_stream, speed, looping and the
\* backend state come out as they would have without the Error messages.
C28_BusErrorOnlyNotifies ==
    [][(Ran("poll") /\ lastOp'.arg = "entered") =>
         /\ Count(lastOp'.published, "on_error") = Count(bus, "Error")
         /\ lastOp'.result = "NextFrame"
         /\ looping' = looping /\ speed' = speed
         /\ (~Has(bus, "Eos") /\ ~restart_stream) =>
               UNCHANGED << is_eos, restart_stream, source, position, seg, muted >>
         /\ \E ok \in BOOLEAN :
               LET clean == WithoutErrors(bus)
                   t == PollTail(PollClear(Cur),
                                 PollRestart(restart_stream, Has(clean, "Eos"), looping),
                                 PollEosPause(Has(clean, "Eos"), looping), ok)
               IN /\ is_eos' = t.is_eos /\ restart_stream' = t.restart_stream
                  /\ source' = t.source /\ speed' = t.speed]_vars

\* a poll drained an Error message while playing, and the engine plays on
C28_Witness ==
    /\ lastOp.op = "poll" /\ Has(lastOp.drained, "Error") /\ ~Has(lastOp.drained, "Eos")
    /\ Has(lastOp.published, "on_error")
    /\ lastOp.pre.source = "Playing" /\ source = "Playing" /\ ~is_eos

\* C29: every poll requests one redraw: at the next frame when a restart is
\* pending or the engine plays and is not at the end of the stream, after the
\* idle delay of 32 ms otherwise.
C29_PollSchedulesNext ==
    [][Ran("poll") =>
         lastOp'.result = IF restart_stream \/ (~is_eos /\ source = "Playing")
                          THEN "NextFrame" ELSE "At32ms"]_vars

\* an idle poll at the end of the stream asked for the delayed redraw
C29_Witness ==
    /\ lastOp.op = "poll" /\ lastOp.result = "At32ms"
    /\ lastOp.pre.is_eos /\ lastOp.pre.source = "Paused"

\* C30: a poll that drains an Eos message while looping is off and no restart
\* is pending publishes on_end_of_stream, sets is_eos, pauses the backend and
\* leaves restart_stream unarmed; a poll that finds the engine so leaves
\* is_eos, restart_stream and the backend state as they are.
C30_EosPausesUntilCommand ==
    [][/\ (Ran("poll") /\ lastOp'.arg = "entered" /\ Has(bus, "Eos") /\ ~looping
              /\ ~restart_stream) =>
             /\ Has(lastOp'.published, "on_end_of_stream")
             /\ is_eos' /\ source' = "Paused" /\ ~restart_stream'
             /\ Has(lastOp'.calls, << "set_state", "Paused" >>)
       /\ (Ran("poll") /\ is_eos /\ source = "Paused" /\ ~restart_stream) =>
             /\ UNCHANGED << is_eos, restart_stream, source, position, bus >>
             /\ lastOp'.arg = "skipped"]_vars

\* the poll paused the engine at the end of the stream, and the next poll,
\* with a message waiting, skipped its body
C30_Witness ==
    /\ lastOp.op = "poll" /\ lastOp.arg = "skipped"
    /\ is_eos /\ source = "Paused" /\ ~restart_stream /\ ~looping
    /\ bus # << >>

\* C31: once alive is false the worker thread starts no new iteration: from
\* the loop test it only leaves, so it finishes at most the iteration it is
\* in; it then exits, and the join of Drop returns.
C31_PumpStopsAfterAliveCleared ==
    /\ [][(~alive /\ pumpPc = "check") => pumpPc' \in {"check", "done"}]_vars
    /\ [][(pumpPc = "done") => pumpPc' = "done"]_vars
    /\ (~alive /\ pumpPc \notin {"none", "done"}) ~> (pumpPc = "done")
    /\ (cpc = "drop_join") ~> (engine = "dropped")

\* alive was cleared while the worker was in an iteration, and it is about
\* to publish the frame of that iteration
C31_Witness ==
    /\ ~alive /\ cpc = "drop_join"
    /\ pumpPc = "flag"

\* C33: every frame the worker thread published and a draw uploads has its
\* on_new_frame: the poll of the tick, which runs just before the draw,
\* published it, also when the engine is paused.
C33_EveryUploadNotified ==
    [][(Ran("draw") /\ upload_frame /\ lastOp.op = "poll") =>
          Has(lastOp.published, "on_new_frame")]_vars

\* C39: a RestartStream whose seek the backend rejects returns SeekError and
\* leaves is_eos and the backend state as they were; a poll whose restart
\* fails leaves is_eos and the backend state as they were, with the restart
\* still pending.
C39_FailedRestartChangesNothing ==
    [][/\ (Ran("restart_stream") /\ Has(lastOp'.calls, << "seek_rejected", "0" >>)) =>
             /\ lastOp'.result = SeekError
             /\ UNCHANGED << is_eos, source >>
       /\ (Ran("poll") /\ Has(lastOp'.calls, << "seek_rejected", "0" >>)) =>
             /\ UNCHANGED << is_eos, source >>
             /\ restart_stream']_vars

\* the operation of this step asked the backend for a seek to 0
RestartIssued ==
    \/ Has(lastOp'.calls, << "seek", "0" >>)
    \/ Has(lastOp'.calls, << "seek_rejected", "0" >>)

\* C37: is_eos goes from true to false only in a RestartStream or in a poll
\* that restarts, and no Seek changes it; on an ended engine a resume arms the
\* restart and leaves is_eos set, wherever a Seek has put the position, and
\* the next poll then restarts: it enters, asks for a seek to 0 and, when the
\* backend accepts it, leaves the segment starting at 0 with is_eos false and
\* the backend playing, not the segment of the user's Seek.
C37_OnlyRestartClearsEos ==
    [][/\ (is_eos /\ ~is_eos') =>
             (Ran("restart_stream") \/ (Ran("poll") /\ RestartIssued))
       /\ Ran("seek") => is_eos' = is_eos
       /\ (Ran("set_paused") /\ lastOp'.arg = "FALSE" /\ is_eos) =>
             (restart_stream' /\ is_eos')
       /\ (Ran("poll") /\ restart_stream) => RestartIssued
       /\ (Ran("poll") /\ restart_stream /\ Has(lastOp'.calls, << "seek", "0" >>)) =>
             /\ seg'.start = 0
             /\ ~is_eos' /\ ~restart_stream'
             /\ source' = "Playing"]_vars

\* an ended stream that the user had moved to position 1 and resumed, restarted
\* from 0 by the poll
C37_Witness ==
    /\ lastOp.op = "poll" /\ lastOp.pre.is_eos /\ lastOp.pre.restart_stream
    /\ lastOp.pre.position = 1 /\ lastOp.pre.source = "Playing"
    /\ Has(lastOp.calls, << "seek", "0" >>)
    /\ position = 0 /\ seg.start = 0 /\ ~is_eos

\* C34: the frame a thumbnail is converted from was pulled by the worker
\* after the seek to its position was issued: it is never the sample the
\* worker had already pulled and not yet published at that seek.
C34_ThumbnailFromSampleAfterSeek ==
    cpc = "thumb_convert" => (hist.stale = 0 \/ frame # hist.stale)

\* C35: thumbnail extraction leaves is_eos, restart_stream, speed and looping
\* as they were before the call; on an engine paused at the end of its stream
\* it does not arm restart_stream, so the poll after it does not restart.
C35_ThumbnailsLeaveTransportFlags ==
    [][/\ ThumbnailsReturn =>
             /\ is_eos' = lastOp.pre.is_eos
             /\ restart_stream' = lastOp.pre.restart_stream
             /\ speed' = lastOp.pre.speed
             /\ looping' = lastOp.pre.looping
       /\ (Ran("poll") /\ lastOp.op = "thumbnails"
             /\ lastOp.pre.is_eos /\ lastOp.pre.source = "Paused"
             /\ ~lastOp.pre.restart_stream) => ~RestartIssued]_vars

\* the backend has no sample left for the worker and none is on its way to
\* the slot
Dry == nextSample > MaxSamples /\ pumpSample = 0 /\ ~upload_frame

\* C32, first half: while the frame mutex is sound a thumbnails call returns,
\* unless the backend stops yielding samples while the call waits for one
C32_TerminatesWhenSamplesArrive ==
    (cpc # "idle" /\ ~framePoisoned) ~> (cpc = "idle" \/ (cpc = "thumb_spin" /\ Dry))

\* C32: thumbnail extraction terminates provided the backend yields a sample
\* to the worker after each seek, and its spin-wait never ends when no sample
\* is yielded after a seek: the wait is left only when the worker has pulled
\* a sample since the seek, and not at all once the backend has run dry.
C32_SpinEndsOnlyOnSampleAfterSeek ==
    [][/\ (cpc = "thumb_spin" /\ cpc' # "thumb_spin") =>
             ~(hist.stale # 0 /\ nextSample = hist.stale + 1)
       /\ (cpc = "thumb_spin" /\ Dry) => cpc' = "thumb_spin"]_vars

\* C36: is_eos becomes true only for an end of stream that no Seek or
\* RestartStream has followed: a poll that finds on the bus only Eos messages
\* posted before a seek the backend accepted does not set is_eos and does not
\* pause.
C36_StaleEosIgnored ==
    [][(Ran("poll") /\ hist.staleEos /\ Has(bus, "Eos")) =>
          /\ is_eos' = is_eos
          /\ ~Has(lastOp'.calls, << "set_state", "Paused" >>)]_vars

\* a sample the worker has published (stored, flag raised) that no consumer
\* read has taken: of the samples stored since the last read, the one whose
\* flag step is still to come does not count
PublishedUnread == hist.pending # << >> /\ ~(pumpPc = "flag" /\ Len(hist.pending) = 1)
\* draw has taken the flag and its primitive is on the way to the upload
Handing == cpc \in {"prepare", "prepare_locked"} /\ prim

\* C38 as stated: the flag is false only where the latest published frame
\* has been read by the consumer or is being handed to it, so that after the
\* next complete draw the consumer has read the last frame of a burst.
C38_NoFrameLostAtEndOfBurst ==
    /\ (~upload_frame /\ PublishedUnread) => Handing
    /\ (cpc = "idle" /\ lastOp.op = "draw" /\ lastOp.result = "Uploaded"
          /\ hist.pending = << >>) => hist.read = frame

\* C38 amended: between the worker and draw no frame is lost: the flag is
\* false with a published frame unread only while draw is handing that frame
\* over, and after a complete draw with nothing stored since, the consumer
\* has read what the slot holds.  thumbnails is the
\* exception: its store(false) discards the frame published before its seek,
\* the flag stays false while it waits, and when its wait ends the flag is
\* set and stays set for the next draw.
C38_NoFrameLostBetweenPumpAndDraw ==
    /\ (~upload_frame /\ PublishedUnread) => (Handing \/ cpc = "thumb_spin")
    /\ (cpc = "idle" /\ lastOp.op = "draw" /\ lastOp.result = "Uploaded"
          /\ hist.pending = << >>) => hist.read = frame
    /\ cpc \in {"thumb_lock", "thumb_convert"} => upload_frame

\* the end of a burst: two samples were stored before the draw, the draw
\* uploaded the second, and the worker has published nothing since
C38_Witness ==
    /\ cpc = "idle" /\ lastOp.op = "draw" /\ lastOp.result = "Uploaded"
    /\ Len(hist.pendingAtRead) >= 2 /\ hist.read = Last(hist.pendingAtRead)
    /\ hist.pending = << >> /\ ~upload_frame /\ frame = hist.read
    /\ pumpPc \in {"check", "pull"}

\* C40: no interleaving of the worker thread, draw, the poll and the read
\* accessors deadlocks: no thread waits for the lock around Internal behind
\* the consumer while the consumer waits for a guard that thread holds, also
\* where size() and overlay() take the read lock a second time under their
\* own guard; the frame mutex is held only by a party that waits for nothing.
C40_NoDeadlock ==
    /\ \A t \in Threads : nested[t] # "blocked"
    /\ frameLock = "pump" => pumpPc = "store"
    /\ frameLock = "consumer" => cpc \in {"prepare_locked", "thumb_convert"}

====
